---------------------------- MODULE Spec2Model ----------------------------
(***************************************************************************)
(* Model of the Day 8 (union-find clustering) and Day 9 (orthogonal        *)
(* polygon area) solvers.  One run of a solver is one behaviour: Init      *)
(* draws the list of input lines, the day, the part and (Day 8 part one)   *)
(* the number of connections; the actions are the solver's steps.          *)
(*                                                                         *)
(* A text line is modelled as the list of its comma-separated fields after *)
(* strip(): "0,1,5" is <<"0","1","5">>, a blank line is <<"">> and a       *)
(* comment line is one whose first field is "#".  int() is the partial     *)
(* map ToInt: a field outside its domain raises ValueError.                *)
(***************************************************************************)
EXTENDS Integers, Sequences, FiniteSets, TLC

VARIABLES
    day,            \* which solver runs: 8 or 9
    part,           \* solve_part_one (1) or solve_part_two (2)
    instructions,   \* the input lines
    connections,    \* Day 8 solve_part_one's keyword argument
    pc,             \* position in the solver
    points,         \* parsed points (1-based sequence; Python index i is points[i+1])
    edges,          \* Day 8: sorted (dist_sq, i, j) list
    idx,            \* Day 8: number of edges already taken from the list
    parents,        \* Day 8: union-find parent array, a function on 0..n-1
    sizes,          \* Day 8: union-find size array, a function on 0..n-1
    components,     \* Day 8 _final_connection_product: live components
    comp_sizes,     \* Day 8 _component_sizes_after_k_edges: its return value
    last_edge,      \* Day 8 _final_connection_product: the edge that returned
    xs, ys,         \* Day 9: compressed coordinates, functions on 0..len-1
    allowed,        \* Day 9: set of allowed tiles <<ix, iy>>
    boundary,       \* Day 9: the tiles marked by the boundary loop (ghost copy)
    visited,        \* Day 9: set of visited tiles
    q,              \* Day 9: flood-fill queue
    dequeues,       \* Day 9: number of popleft() calls so far (ghost counter)
    prefix,         \* Day 9: prefix sums, a function on (0..width_n) \X (0..height_n)
    outcome,        \* "running", "returned" or "ValueError" (the only exception raised)
    result,         \* the returned integer
    message,        \* the message of the raised ValueError
    history,        \* the calls of the solvers completed earlier in this process
    REQUESTS_AVAILABLE, \* helper.py: whether "import requests" succeeded
    environ,        \* os.environ, restricted to AOC_COOKIE and AOC_YEAR
    secret_files,   \* the two secret.json candidates: cwd, then module directory
    _secrets_cache, \* helper.py: the module-level cache of _load_secrets
    last,           \* the helper call made last, with its arguments and outcome
    row_idx,        \* Day 7: the row the loop is at
    width,          \* Day 7: the grid's width, from _find_start
    active,         \* Day 7 _count_timelines: column -> number of timelines there
    finished,       \* Day 7 _count_timelines: timelines that left sideways
    parsed_ranges,  \* Day 5 solve_part_two: the (start, end) pairs, sorted by start
    merged_ranges,  \* Day 5 solve_part_two: the merged ranges built so far
    range_idx,       \* Day 5 solve_part_two: number of parsed ranges already merged
    line_idx,       \* Day 3: the lines solve_part_one has processed
    line3,          \* Day 3: line, the line of the pass just made
    branch,          \* Day 3: the branch that pass took
    first_position, \* Day 1: my_dial_position of first_part
    first_zeroes,   \* Day 1: zeroes of first_part
    second_position, \* Day 1: my_dial_position of second_part
    second_zeroes,  \* Day 1: zeroes of second_part
    line_no,        \* Day 1: the lines both parts have started on
    clicks_left,     \* Day 1: the passes second_part's range() loop has yet to make
    new_day,        \* create_day: the argument day
    template_dir,   \* create_day: the template directory on disk
    day_dir,        \* create_day: project_root/Day<N> on disk
    day_dir_before, \* create_day: project_root/Day<N> when the call was made
    create_pc,      \* create_day: where the call is
    copy_idx,       \* create_day: the entries of files_to_copy the loop has passed
    created,        \* create_day: day_dir.mkdir() of this call succeeded
    rmtree_failed,  \* create_day: the handler caught an OSError of shutil.rmtree
    raised          \* create_day: the exception the call ended with

solvervars ==
    <<day, part, instructions, connections, pc, points, edges, idx, parents,
      sizes, components, comp_sizes, last_edge, xs, ys, allowed, boundary,
      visited, q, dequeues, prefix, outcome, result, message>>

helpervars == <<REQUESTS_AVAILABLE, environ, secret_files, _secrets_cache, last>>

day7vars == <<row_idx, width, active, finished>>

day5vars == <<parsed_ranges, merged_ranges, range_idx>>

day3vars == <<line_idx, line3, branch>>

day1vars == <<first_position, first_zeroes, second_position, second_zeroes, line_no,
              clicks_left>>

createvars ==
    <<new_day, template_dir, day_dir, day_dir_before, create_pc, copy_idx, created,
      rmtree_failed, raised>>

\* the variables of the other programs of the repository
othervars == <<day7vars, day5vars, day3vars, day1vars, createvars>>

\* for each of them, the variables of the others
besides7 == <<day5vars, day3vars, day1vars, createvars>>
besides5 == <<day7vars, day3vars, day1vars, createvars>>
besides3 == <<day7vars, day5vars, day1vars, createvars>>
besides1 == <<day7vars, day5vars, day3vars, createvars>>
besidescreate == <<day7vars, day5vars, day3vars, day1vars>>

vars == <<solvervars, history, helpervars, othervars>>

day8vars == <<edges, idx, parents, sizes, components, comp_sizes, last_edge>>
day9vars == <<xs, ys, allowed, boundary, visited, q, dequeues, prefix>>

----------------------------------------------------------------------------
(* Bounds of the model. *)

\* longest list of point lines given to Day 8
MaxPoints == 4
\* longest list of arbitrary lines (blank, comment, malformed, point)
MaxLines == 3
\* most vertices of a Day 9 boundary path
MaxVertices == 6
\* most characters of a local input or example file
MaxChars == 4
\* most rows of a Day 7 grid
MaxRows7 == 3
\* most lines of a Day 5 input
MaxLines5 == 3
\* most lines of a Day 3 input, and most characters of one of its lines
MaxLines3 == 3
MaxChars3 == 3
\* most lines of a Day 1 input
MaxLines1 == 3

----------------------------------------------------------------------------
(* helper.py: the values its state holds. *)

\* a dict with string values under (some of) the keys AOC_COOKIE and YEAR
Dict(keys, cookie, year) ==
    [none |-> FALSE, keys |-> keys, AOC_COOKIE |-> cookie, YEAR |-> year]

\* Python's None where a dict may stand
None == [none |-> TRUE, keys |-> {}, AOC_COOKIE |-> "", YEAR |-> ""]

\* a secret.json candidate: no such path, a file open() refuses, a file that
\* is not JSON, or a file holding a dict
Absent == [kind |-> "absent", dict |-> None]
Unreadable == [kind |-> "unreadable", dict |-> None]
InvalidJson == [kind |-> "invalid", dict |-> None]
JsonFile(d) == [kind |-> "json", dict |-> d]

\* the record of a helper call: the server's status or the file's text it
\* met, whether it came right after is_api_available() returned True, and
\* what it returned or raised
NoCall ==
    [call |-> "", status |-> 0, content |-> <<>>, after_available |-> FALSE,
     outcome |-> "", secrets |-> None, cookie |-> "", year |-> "",
     value |-> FALSE, lines |-> <<>>, verdict |-> ""]

Day7Idle ==
    /\ row_idx = 0
    /\ width = 0
    /\ active = <<>>
    /\ finished = 0

Day5Idle ==
    /\ parsed_ranges = <<>>
    /\ merged_ranges = <<>>
    /\ range_idx = 0

Day3Idle ==
    /\ line_idx = 0
    /\ line3 = <<>>
    /\ branch = ""

Day1Idle ==
    /\ first_position = 0
    /\ first_zeroes = 0
    /\ second_position = 0
    /\ second_zeroes = 0
    /\ line_no = 0
    /\ clicks_left = 0

CreateIdle ==
    /\ new_day = 0
    /\ template_dir = [exists |-> FALSE, files |-> {}, DAY |-> 0]
    /\ day_dir = [exists |-> FALSE, files |-> {}, DAY |-> 0]
    /\ day_dir_before = [exists |-> FALSE, files |-> {}, DAY |-> 0]
    /\ create_pc = "idle"
    /\ copy_idx = 0
    /\ created = FALSE
    /\ rmtree_failed = FALSE
    /\ raised = ""

\* the other programs are not running
OtherIdle ==
    /\ Day7Idle
    /\ Day5Idle
    /\ Day3Idle
    /\ Day1Idle
    /\ CreateIdle

\* the helpers before any call, in a process with requests installed, no
\* variables set and no secret.json
HelperIdle ==
    /\ REQUESTS_AVAILABLE = TRUE
    /\ environ = [AOC_COOKIE |-> "", AOC_YEAR |-> ""]
    /\ secret_files = <<Absent, Absent>>
    /\ _secrets_cache = None
    /\ last = NoCall

----------------------------------------------------------------------------
(* Text lines and int(). *)

\* int(field): the fields that convert, with their values
ToInt == ("0" :> 0) @@ ("1" :> 1) @@ ("4" :> 4) @@ ("5" :> 5)

IsIntField(f) == f \in DOMAIN ToInt

\* line.strip() is empty
IsBlank(line) == line = <<"">>

\* stripped.startswith("#")
IsComment(line) == line[1] = "#"

BlankLine == <<"">>
CommentLine == <<"#">>

RECURSIVE SumSeq(_)
SumSeq(s) == IF s = <<>> THEN 0 ELSE Head(s) + SumSeq(Tail(s))

RECURSIVE ProdSeq(_)
ProdSeq(s) == IF s = <<>> THEN 1 ELSE Head(s) * ProdSeq(Tail(s))

\* a slice that stops one entry early
Take_OneShort(s, k) == SubSeq(s, 1, (IF k < Len(s) THEN k ELSE Len(s)) - 1)

\* s[:k] for k >= 0
Take(s, k) == SubSeq(s, 1, IF k < Len(s) THEN k ELSE Len(s))

\* all sequences over S of length n, and of length lo..hi
RECURSIVE SeqsOfLen(_, _)
SeqsOfLen(S, n) ==
    IF n = 0 THEN {<<>>}
    ELSE {Append(s, x) : s \in SeqsOfLen(S, n - 1), x \in S}

SeqsUpTo(S, lo, hi) == UNION {SeqsOfLen(S, n) : n \in lo..hi}

----------------------------------------------------------------------------
(* Day 8: parsing. *)

ParseError(msg) == [ok |-> FALSE, points |-> <<>>, message |-> msg]

\* x, y, z = map(int, line.split(",")): the iterator is unpacked into three
\* names, int() running as each field is pulled; a fourth pull decides
\* "too many values".
UnpackResult8(line) ==
    LET firstBad == {i \in 1..Len(line) : i <= 4 /\ ~IsIntField(line[i])}
    IN  IF \E i \in firstBad : i <= 3 /\ i <= Len(line)
            THEN "invalid literal for int()"
        ELSE IF Len(line) < 3 THEN "not enough values to unpack"
        ELSE IF Len(line) > 3 THEN
            (IF 4 \in firstBad THEN "invalid literal for int()"
             ELSE "too many values to unpack")
        ELSE "ok"

\* the parse loop that drops a malformed line instead of raising
RECURSIVE ParseFrom8_SkipBad(_, _, _)
ParseFrom8_SkipBad(lines, i, acc) ==
    IF i > Len(lines) THEN
        IF acc = <<>>
            THEN ParseError("No junction box coordinates found in the input.")
            ELSE [ok |-> TRUE, points |-> acc, message |-> ""]
    ELSE IF IsBlank(lines[i]) \/ UnpackResult8(lines[i]) # "ok"
        THEN ParseFrom8_SkipBad(lines, i + 1, acc)
    ELSE ParseFrom8_SkipBad(lines, i + 1,
            Append(acc, <<ToInt[lines[i][1]], ToInt[lines[i][2]], ToInt[lines[i][3]]>>))

RECURSIVE ParseFrom8(_, _, _)
ParseFrom8(lines, i, acc) ==
    IF i > Len(lines) THEN
        IF acc = <<>>
            THEN ParseError("No junction box coordinates found in the input.")
            ELSE [ok |-> TRUE, points |-> acc, message |-> ""]
    ELSE IF IsBlank(lines[i]) THEN ParseFrom8(lines, i + 1, acc)
    ELSE IF UnpackResult8(lines[i]) # "ok" THEN ParseError(UnpackResult8(lines[i]))
    ELSE ParseFrom8(lines, i + 1,
            Append(acc, <<ToInt[lines[i][1]], ToInt[lines[i][2]], ToInt[lines[i][3]]>>))

\* _parse_points without its "if not points: raise"
_parse_points_NoEmptyCheck(lines) ==
    LET r == ParseFrom8(lines, 1, <<>>)
    IN  IF r.message = "No junction box coordinates found in the input."
            THEN [ok |-> TRUE, points |-> <<>>, message |-> ""]
            ELSE r

\* _parse_points memoised without a key: once a Day 8 call has parsed its
\* points, later calls get that list back
_parse_points_Memoised(lines) ==
    IF points # <<>> /\ Len(points[1]) = 3
        THEN [ok |-> TRUE, points |-> points, message |-> ""]
        ELSE ParseFrom8(lines, 1, <<>>)

_parse_points(lines) == ParseFrom8(lines, 1, <<>>)

----------------------------------------------------------------------------
(* Day 8: the sorted edge list. *)

DistSq(p1, p2) ==
    (p1[1] - p2[1]) * (p1[1] - p2[1]) + (p1[2] - p2[2]) * (p1[2] - p2[2])
        + (p1[3] - p2[3]) * (p1[3] - p2[3])

\* the two nested loops: i ascending, then j ascending from i + 1
RECURSIVE GenEdgesFrom(_, _, _)
GenEdgesFrom(pts, i, j) ==
    IF i >= Len(pts) THEN <<>>
    ELSE IF j >= Len(pts) THEN GenEdgesFrom(pts, i + 1, i + 2)
    ELSE <<<<DistSq(pts[i + 1], pts[j + 1]), i, j>>>> \o GenEdgesFrom(pts, i, j + 1)

\* e goes behind every entry whose key is not larger: with the entries taken
\* in generation order this is list.sort(key=...), which is stable
\* e goes in front of the entries with an equal key: not a stable sort
RECURSIVE InsertByKey_BeforeEqual(_, _)
InsertByKey_BeforeEqual(e, s) ==
    IF s = <<>> THEN <<e>>
    ELSE IF e[1] <= Head(s)[1] THEN <<e>> \o s
    ELSE <<Head(s)>> \o InsertByKey_BeforeEqual(e, Tail(s))

RECURSIVE InsertByKey(_, _)
InsertByKey(e, s) ==
    IF s = <<>> THEN <<e>>
    ELSE IF e[1] < Head(s)[1] THEN <<e>> \o s
    ELSE <<Head(s)>> \o InsertByKey(e, Tail(s))

RECURSIVE SortByKey(_, _)
SortByKey(todo, done) ==
    IF todo = <<>> THEN done
    ELSE SortByKey(Tail(todo), InsertByKey(Head(todo), done))

\* the edge list left in generation order
_sorted_edges_Unsorted(pts) == GenEdgesFrom(pts, 0, 1)

_sorted_edges(pts) == SortByKey(GenEdgesFrom(pts, 0, 1), <<>>)

----------------------------------------------------------------------------
(* Day 8: the disjoint-set forest. *)

\* find with an "if" in the place of the "while": one step up, no halving
find_OneStep(par, a) == [parents |-> par, root |-> par[a]]

\* find(a) with path halving; returns the parent array it leaves and the root
RECURSIVE find(_, _)
find(par, a) ==
    IF par[a] = a THEN [parents |-> par, root |-> a]
    ELSE LET par2 == [par EXCEPT ![a] = par[par[a]]]
         IN  find(par2, par2[a])

\* union that adds the sizes on the root it has just attached
union_SizeOnChild(par, sz, a, b) ==
    LET fa == find(par, a)
        fb == find(fa.parents, b)
        ra == fa.root
        rb == fb.root
        big == IF sz[ra] < sz[rb] THEN rb ELSE ra
        small == IF sz[ra] < sz[rb] THEN ra ELSE rb
    IN  IF ra = rb
            THEN [parents |-> fb.parents, sizes |-> sz, merged |-> FALSE]
            ELSE [parents |-> [fb.parents EXCEPT ![small] = big],
                  sizes |-> [sz EXCEPT ![small] = sz[big] + sz[small]],
                  merged |-> TRUE]

\* union without its "if ra == rb: return"
union_NoSameRootCheck(par, sz, a, b) ==
    LET fa == find(par, a)
        fb == find(fa.parents, b)
        ra == fa.root
        rb == fb.root
        big == IF sz[ra] < sz[rb] THEN rb ELSE ra
        small == IF sz[ra] < sz[rb] THEN ra ELSE rb
    IN  [parents |-> [fb.parents EXCEPT ![small] = big],
         sizes |-> [sz EXCEPT ![big] = sz[big] + sz[small]],
         merged |-> TRUE]

\* union without the swap: rb always goes under ra
union_NoSwap(par, sz, a, b) ==
    LET fa == find(par, a)
        fb == find(fa.parents, b)
        ra == fa.root
        rb == fb.root
    IN  IF ra = rb
            THEN [parents |-> fb.parents, sizes |-> sz, merged |-> FALSE]
            ELSE [parents |-> [fb.parents EXCEPT ![rb] = ra],
                  sizes |-> [sz EXCEPT ![ra] = sz[ra] + sz[rb]],
                  merged |-> TRUE]

\* union(a, b); merged is the bool _final_connection_product's union returns
union(par, sz, a, b) ==
    LET fa == find(par, a)
        fb == find(fa.parents, b)
        ra == fa.root
        rb == fb.root
        big == IF sz[ra] < sz[rb] THEN rb ELSE ra
        small == IF sz[ra] < sz[rb] THEN ra ELSE rb
    IN  IF ra = rb
            THEN [parents |-> fb.parents, sizes |-> sz, merged |-> FALSE]
            ELSE [parents |-> [fb.parents EXCEPT ![small] = big],
                  sizes |-> [sz EXCEPT ![big] = sz[big] + sz[small]],
                  merged |-> TRUE]

\* the loop over range(n) that collects sizes[root] for every idx that is
\* its own root
RECURSIVE CollectFrom(_, _, _, _)
CollectFrom(par, sz, i, acc) ==
    IF i >= Cardinality(DOMAIN par) THEN [parents |-> par, comp_sizes |-> acc]
    ELSE LET f == find(par, i)
         IN  CollectFrom(f.parents, sz, i + 1,
                         IF f.root = i THEN Append(acc, sz[f.root]) ELSE acc)

RECURSIVE InsertDesc(_, _)
InsertDesc(x, s) ==
    IF s = <<>> THEN <<x>>
    ELSE IF x > Head(s) THEN <<x>> \o s
    ELSE <<Head(s)>> \o InsertDesc(x, Tail(s))

\* list.sort(reverse=True)
RECURSIVE SortDesc(_, _)
SortDesc(todo, done) ==
    IF todo = <<>> THEN done
    ELSE SortDesc(Tail(todo), InsertDesc(Head(todo), done))

----------------------------------------------------------------------------
(* Day 8: inputs. *)

\* lines that parse to a point; two pairs at distance 1 make a tie
PointLines8 ==
    {<<"0", "0", "0">>, <<"1", "0", "0">>, <<"1", "1", "0">>, <<"5", "5", "5">>}

\* lines of every kind: blank, comment, malformed (a non-integer field, too
\* few fields, too many fields) and two points
AnyLines8 ==
    {BlankLine, CommentLine, <<"1", "x", "0">>, <<"1", "0">>,
     <<"1", "0", "0", "5">>, <<"0", "0", "0">>, <<"5", "5", "5">>}

Inputs8 ==
    SeqsUpTo(PointLines8, 1, MaxPoints) \cup SeqsUpTo(AnyLines8, 0, MaxLines)

\* one more than the number of edges of the largest input
MaxConnections == (MaxPoints * (MaxPoints - 1)) \div 2 + 1

NoFunction == <<>>

Day8Idle ==
    /\ edges = <<>>
    /\ idx = 0
    /\ parents = NoFunction
    /\ sizes = NoFunction
    /\ components = 0
    /\ comp_sizes = <<>>
    /\ last_edge = <<>>

Day9Idle ==
    /\ xs = NoFunction
    /\ ys = NoFunction
    /\ allowed = {}
    /\ boundary = {}
    /\ visited = {}
    /\ q = <<>>
    /\ dequeues = 0
    /\ prefix = NoFunction

Init8 ==
    /\ day = 8
    /\ part \in {1, 2}
    /\ instructions \in Inputs8
    /\ connections \in (IF part = 1 THEN 0..MaxConnections ELSE {0})
    /\ pc = "start"
    /\ points = <<>>
    /\ Day8Idle
    /\ Day9Idle
    /\ outcome = "running"
    /\ result = 0
    /\ message = ""
    /\ history = {}
    /\ HelperIdle
    /\ OtherIdle

----------------------------------------------------------------------------
(* Day 8: the solvers' steps. *)

Return(v) ==
    /\ pc' = "done"
    /\ outcome' = "returned"
    /\ result' = v
    /\ message' = ""

Raise(msg) ==
    /\ pc' = "done"
    /\ outcome' = "ValueError"
    /\ result' = 0
    /\ message' = msg

\* solve_part_one / solve_part_two up to the first loop of the engine: the
\* empty-input return, _parse_points, _sorted_edges and the initial forest
Start8 ==
    /\ day = 8
    /\ pc = "start"
    /\ UNCHANGED <<history, helpervars, othervars, day, part, instructions, connections, day9vars>>
    /\ IF instructions = <<>> THEN
            /\ Return(0)
            /\ UNCHANGED <<points, day8vars>>
       ELSE LET parsed == _parse_points(instructions)
                n == Len(parsed.points)
            IN  IF ~parsed.ok THEN
                    /\ Raise(parsed.message)
                    /\ UNCHANGED <<points, day8vars>>
                ELSE
                    /\ points' = parsed.points
                    /\ edges' = _sorted_edges(parsed.points)
                    /\ parents' = [i \in 0..(n - 1) |-> i]
                    /\ sizes' = [i \in 0..(n - 1) |-> 1]
                    /\ components' = n
                    /\ idx' = 0
                    /\ pc' = IF part = 1 THEN "union" ELSE "final"
                    /\ UNCHANGED <<comp_sizes, last_edge, outcome, result, message>>

\* one pass of "for _, a, b in edges[:k]: union(a, b)"
UnionStep ==
    /\ day = 8
    /\ pc = "union"
    /\ idx < Len(Take(edges, connections))
    /\ LET e == edges[idx + 1]
           u == union(parents, sizes, e[2], e[3])
       IN  /\ parents' = u.parents
           /\ sizes' = u.sizes
    /\ idx' = idx + 1
    /\ UNCHANGED <<history, helpervars, othervars, day, part, instructions, connections, pc, points, edges,
                   components, comp_sizes, last_edge, day9vars, outcome, result,
                   message>>

\* the loop is over: collect and sort the component sizes, and back in
\* solve_part_one multiply the three largest
CollectSizes ==
    /\ day = 8
    /\ pc = "union"
    /\ idx = Len(Take(edges, connections))
    /\ LET c == CollectFrom(parents, sizes, 0, <<>>)
           sorted == SortDesc(c.comp_sizes, <<>>)
       IN  /\ parents' = c.parents
           /\ comp_sizes' = sorted
           /\ Return(ProdSeq(Take(sorted, 3)))
    /\ UNCHANGED <<history, helpervars, othervars, day, part, instructions, connections, points, edges, idx, sizes,
                   components, last_edge, day9vars>>

\* one pass of "for _, a, b in edges:" in _final_connection_product
FinalStep ==
    /\ day = 8
    /\ pc = "final"
    /\ idx < Len(edges)
    /\ LET e == edges[idx + 1]
           u == union(parents, sizes, e[2], e[3])
           left == IF u.merged THEN components - 1 ELSE components
       IN  /\ parents' = u.parents
           /\ sizes' = u.sizes
           /\ components' = left
           /\ idx' = idx + 1
           /\ IF u.merged /\ left = 1 THEN
                   /\ last_edge' = e
                   /\ Return(points[e[2] + 1][1] * points[e[3] + 1][1])
              ELSE UNCHANGED <<last_edge, pc, outcome, result, message>>
    /\ UNCHANGED <<history, helpervars, othervars, day, part, instructions, connections, points, edges, comp_sizes,
                   day9vars>>

\* the edge list ran out without a return
FinalExhausted ==
    /\ day = 8
    /\ pc = "final"
    /\ idx = Len(edges)
    /\ Raise("Graph did not become fully connected")
    /\ UNCHANGED <<history, helpervars, othervars, day, part, instructions, connections, points, day8vars, day9vars>>

Next8 == Start8 \/ UnionStep \/ CollectSizes \/ FinalStep \/ FinalExhausted

----------------------------------------------------------------------------
(* Day 9: parsing, shared by solve_part_one and solve_part_two. *)

\* the try block: split into exactly two fields, then int() of each
LineOk9(line) == Len(line) = 2 /\ IsIntField(line[1]) /\ IsIntField(line[2])

\* the parse loop without its skip of '#' lines
RECURSIVE ParseFrom9_NoCommentSkip(_, _, _)
ParseFrom9_NoCommentSkip(lines, i, acc) ==
    IF i > Len(lines) THEN [ok |-> TRUE, points |-> acc, message |-> ""]
    ELSE IF IsBlank(lines[i]) THEN ParseFrom9_NoCommentSkip(lines, i + 1, acc)
    ELSE IF ~LineOk9(lines[i]) THEN ParseError("Invalid coordinate line")
    ELSE ParseFrom9_NoCommentSkip(lines, i + 1,
            Append(acc, <<ToInt[lines[i][1]], ToInt[lines[i][2]]>>))

\* the parse loop that drops a malformed line instead of raising
RECURSIVE ParseFrom9_SkipBad(_, _, _)
ParseFrom9_SkipBad(lines, i, acc) ==
    IF i > Len(lines) THEN [ok |-> TRUE, points |-> acc, message |-> ""]
    ELSE IF IsBlank(lines[i]) \/ IsComment(lines[i]) \/ ~LineOk9(lines[i])
        THEN ParseFrom9_SkipBad(lines, i + 1, acc)
    ELSE ParseFrom9_SkipBad(lines, i + 1,
            Append(acc, <<ToInt[lines[i][1]], ToInt[lines[i][2]]>>))

RECURSIVE ParseFrom9(_, _, _)
ParseFrom9(lines, i, acc) ==
    IF i > Len(lines) THEN [ok |-> TRUE, points |-> acc, message |-> ""]
    ELSE IF IsBlank(lines[i]) \/ IsComment(lines[i])
        THEN ParseFrom9(lines, i + 1, acc)
    ELSE IF ~LineOk9(lines[i]) THEN ParseError("Invalid coordinate line")
    ELSE ParseFrom9(lines, i + 1,
            Append(acc, <<ToInt[lines[i][1]], ToInt[lines[i][2]]>>))

Abs(v) == IF v < 0 THEN -v ELSE v
Min2(a, b) == IF a < b THEN a ELSE b
Max2(a, b) == IF a < b THEN b ELSE a
MinOf(S) == CHOOSE v \in S : \A u \in S : v <= u
MaxOf(S) == CHOOSE v \in S : \A u \in S : v >= u

\* (abs(x1 - x2) + 1) * (abs(y1 - y2) + 1)
PairArea(p1, p2) == (Abs(p1[1] - p2[1]) + 1) * (Abs(p1[2] - p2[2]) + 1)

\* solve_part_one's double loop, from pair (i, j) on
RECURSIVE MaxAreaFrom(_, _, _, _)
MaxAreaFrom(pts, i, j, max_area) ==
    IF i >= Len(pts) THEN max_area
    ELSE IF j >= Len(pts) THEN MaxAreaFrom(pts, i + 1, i + 2, max_area)
    ELSE LET area == PairArea(pts[i + 1], pts[j + 1])
         IN  MaxAreaFrom(pts, i, j + 1, IF area > max_area THEN area ELSE max_area)

----------------------------------------------------------------------------
(* Day 9 solve_part_two: coordinate compression and the boundary. *)

\* sorted(S) as a function on 0..len-1
Sorted(S) ==
    [i \in 0..(Cardinality(S) - 1) |->
        CHOOSE v \in S : Cardinality({u \in S : u < v}) = i]

\* the right margin put at max_x + 1, which x + 1 of the last vertex
\* column already is: no frame column is left on that side
CompressX_ShortMargin(pts) ==
    LET vx == {pts[i][1] : i \in 1..Len(pts)}
    IN  Sorted({MinOf(vx) - 1, MaxOf(vx) + 1} \cup vx \cup {v + 1 : v \in vx})

CompressX(pts) ==
    LET vx == {pts[i][1] : i \in 1..Len(pts)}
    IN  Sorted({MinOf(vx) - 1, MaxOf(vx) + 2} \cup vx \cup {v + 1 : v \in vx})

CompressY(pts) ==
    LET vy == {pts[i][2] : i \in 1..Len(pts)}
    IN  Sorted({MinOf(vy) - 1, MaxOf(vy) + 2} \cup vy \cup {v + 1 : v \in vy})

\* x_index[v] and y_index[v] of a coordinate list c
IndexIn(c, v) == CHOOSE i \in DOMAIN c : c[i] = v

\* the wraparound successor drops the last -> first edge
EdgeEnd_NoWrap(pts, i) == IF i + 1 < Len(pts) THEN pts[i + 2] ELSE pts[i + 1]

\* points[(i + 1) % n]
EdgeEnd(pts, i) == pts[((i + 1) % Len(pts)) + 1]

\* x1 != x2 and y1 != y2
IsDiagonal(p1, p2) == p1[1] # p2[1] /\ p1[2] # p2[2]

\* the tiles the boundary loop marks for the edge that starts at point i
EdgeTiles(pts, cx, cy, i) ==
    LET p1 == pts[i + 1]
        p2 == EdgeEnd(pts, i)
    IN  IF p1[1] = p2[1]
            THEN {<<IndexIn(cx, p1[1]), iy>> :
                    iy \in IndexIn(cy, Min2(p1[2], p2[2]))
                            ..(IndexIn(cy, Max2(p1[2], p2[2]) + 1) - 1)}
            ELSE {<<ix, IndexIn(cy, p1[2])>> :
                    ix \in IndexIn(cx, Min2(p1[1], p2[1]))
                            ..(IndexIn(cx, Max2(p1[1], p2[1]) + 1) - 1)}

width_n == Cardinality(DOMAIN xs) - 1
height_n == Cardinality(DOMAIN ys) - 1
widths(ix) == xs[ix + 1] - xs[ix]
heights(iy) == ys[iy + 1] - ys[iy]
Tiles == (0..(width_n - 1)) \X (0..(height_n - 1))

----------------------------------------------------------------------------
(* Day 9 solve_part_two: the flood fill.  st is the pair (visited, q). *)

\* enqueue without its "not allowed[x][y]": the fill runs through the boundary
enqueue_ThroughBoundary(st, x, y) ==
    IF /\ 0 <= x /\ x < width_n /\ 0 <= y /\ y < height_n
       /\ <<x, y>> \notin st.visited
        THEN [visited |-> st.visited \cup {<<x, y>>}, q |-> Append(st.q, <<x, y>>)]
        ELSE st

\* enqueue that leaves the visited mark to the moment of the dequeue
enqueue_MarkLater(st, x, y) ==
    IF /\ 0 <= x /\ x < width_n /\ 0 <= y /\ y < height_n
       /\ <<x, y>> \notin st.visited
       /\ <<x, y>> \notin allowed
        THEN [visited |-> st.visited, q |-> Append(st.q, <<x, y>>)]
        ELSE st

enqueue(st, x, y) ==
    IF /\ 0 <= x /\ x < width_n /\ 0 <= y /\ y < height_n
       /\ <<x, y>> \notin st.visited
       /\ <<x, y>> \notin allowed
        THEN [visited |-> st.visited \cup {<<x, y>>}, q |-> Append(st.q, <<x, y>>)]
        ELSE st

\* for x in range(width_n): enqueue(x, 0); enqueue(x, height_n - 1)
RECURSIVE SeedRows(_, _)
SeedRows(st, x) ==
    IF x >= width_n THEN st
    ELSE SeedRows(enqueue(enqueue(st, x, 0), x, height_n - 1), x + 1)

\* for y in range(height_n): enqueue(0, y); enqueue(width_n - 1, y)
RECURSIVE SeedColumns(_, _)
SeedColumns(st, y) ==
    IF y >= height_n THEN st
    ELSE SeedColumns(enqueue(enqueue(st, 0, y), width_n - 1, y), y + 1)

----------------------------------------------------------------------------
(* Day 9 solve_part_two: prefix sums and the rectangle search. *)

\* a tile counted as one unit whatever its width and height
TileArea_Unweighted(alw, ix, iy) == IF <<ix, iy>> \in alw THEN 1 ELSE 0

TileArea(alw, ix, iy) == IF <<ix, iy>> \in alw THEN widths(ix) * heights(iy) ELSE 0

\* row_sum when the inner loop has reached y
RECURSIVE RowSum(_, _, _)
RowSum(alw, x, y) ==
    IF y = 0 THEN 0 ELSE RowSum(alw, x, y - 1) + TileArea(alw, x - 1, y - 1)

\* prefix[x][y] = prefix[x - 1][y] + row_sum
RECURSIVE PrefixAt(_, _, _)
PrefixAt(alw, x, y) ==
    IF x = 0 \/ y = 0 THEN 0 ELSE PrefixAt(alw, x - 1, y) + RowSum(alw, x, y)

BuildPrefix(alw) ==
    [t \in (0..width_n) \X (0..height_n) |-> PrefixAt(alw, t[1], t[2])]

\* the right and upper index taken at x1 and y1 instead of x1 + 1 and y1 + 1
rect_area_sum_OffByOne(pf, x0, x1, y0, y1) ==
    LET lx == IndexIn(xs, x0)
        rx == IndexIn(xs, x1)
        ly == IndexIn(ys, y0)
        ry == IndexIn(ys, y1)
    IN  pf[<<rx, ry>>] - pf[<<lx, ry>>] - pf[<<rx, ly>>] + pf[<<lx, ly>>]

rect_area_sum(pf, x0, x1, y0, y1) ==
    LET lx == IndexIn(xs, x0)
        rx == IndexIn(xs, x1 + 1)
        ly == IndexIn(ys, y0)
        ry == IndexIn(ys, y1 + 1)
    IN  pf[<<rx, ry>>] - pf[<<lx, ry>>] - pf[<<rx, ly>>] + pf[<<lx, ly>>]

\* solve_part_two's double loop, from pair (i, j) on
RECURSIVE SearchFrom(_, _, _, _)
SearchFrom(pf, i, j, max_area) ==
    IF i >= Len(points) THEN max_area
    ELSE IF j >= Len(points) THEN SearchFrom(pf, i + 1, i + 2, max_area)
    ELSE LET p1 == points[i + 1]
             p2 == points[j + 1]
             area_tiles == PairArea(p1, p2)
         IN  IF area_tiles <= max_area THEN SearchFrom(pf, i, j + 1, max_area)
             ELSE IF rect_area_sum(pf, Min2(p1[1], p2[1]), Max2(p1[1], p2[1]),
                                   Min2(p1[2], p2[2]), Max2(p1[2], p2[2])) = area_tiles
                 THEN SearchFrom(pf, i, j + 1, area_tiles)
             ELSE SearchFrom(pf, i, j + 1, max_area)

----------------------------------------------------------------------------
(* Day 9: inputs. *)

\* the coordinates of the boundary vertices: 1 and 4 leave a tile two wide
Coords9 == {"0", "1", "4"}

PointLines9 == {<<cx, cy>> : cx \in Coords9, cy \in Coords9}

\* s continued by one vertex that differs from its last one in exactly one
\* coordinate, and not in the coordinate the step before changed
Turns(s) ==
    {Append(s, p) : p \in {r \in PointLines9 :
        LET l == s[Len(s)]
        IN  /\ (r[1] = l[1]) # (r[2] = l[2])
            /\ Len(s) >= 2 => ((r[1] = l[1]) # (l[1] = s[Len(s) - 1][1]))}}

\* boundary paths of n vertices whose edges alternate between horizontal
\* and vertical; the closing edge last -> first is whatever it comes to
RECURSIVE Paths9(_)
Paths9(n) ==
    IF n = 1 THEN {<<p>> : p \in PointLines9}
    ELSE UNION {Turns(s) : s \in Paths9(n - 1)}

AnyLines9 ==
    {BlankLine, CommentLine, <<"x", "0">>, <<"0">>, <<"0", "0", "0">>,
     <<"0", "0">>, <<"4", "4">>, <<"0", "4">>}

Inputs9 ==
    UNION {Paths9(n) : n \in 2..MaxVertices} \cup SeqsUpTo(AnyLines9, 0, MaxLines)

Init9 ==
    /\ day = 9
    /\ part \in {1, 2}
    /\ instructions \in Inputs9
    /\ connections = 0
    /\ pc = "start"
    /\ points = <<>>
    /\ Day8Idle
    /\ Day9Idle
    /\ outcome = "running"
    /\ result = 0
    /\ message = ""
    /\ history = {}
    /\ HelperIdle
    /\ OtherIdle

----------------------------------------------------------------------------
(* Day 9: the solvers' steps. *)

\* the parse loop and the "fewer than 2 points" return of both parts;
\* solve_part_one then runs its pair loop to the end
Start9 ==
    /\ day = 9
    /\ pc = "start"
    /\ UNCHANGED <<history, helpervars, othervars, day, part, instructions, connections, day8vars, day9vars>>
    /\ LET parsed == ParseFrom9(instructions, 1, <<>>)
       IN  IF ~parsed.ok THEN
               /\ Raise(parsed.message)
               /\ UNCHANGED points
           ELSE
               /\ points' = parsed.points
               /\ IF Len(parsed.points) < 2 THEN Return(0)
                  ELSE IF part = 1 THEN Return(MaxAreaFrom(parsed.points, 0, 1, 0))
                  ELSE /\ pc' = "mark"
                       /\ UNCHANGED <<outcome, result, message>>

\* solve_part_two: compression, then the boundary loop, which raises at the
\* first edge that is not axis-aligned
MarkBoundary ==
    /\ day = 9
    /\ pc = "mark"
    /\ UNCHANGED <<history, helpervars, othervars, day, part, instructions, connections, points, day8vars,
                   visited, q, dequeues, prefix>>
    /\ IF \E i \in 0..(Len(points) - 1) : IsDiagonal(points[i + 1], EdgeEnd(points, i))
           THEN /\ Raise("Edges must be axis-aligned")
                /\ UNCHANGED <<xs, ys, allowed, boundary>>
           ELSE LET cx == CompressX(points)
                    cy == CompressY(points)
                    marked == UNION {EdgeTiles(points, cx, cy, i) :
                                        i \in 0..(Len(points) - 1)}
                IN  /\ xs' = cx
                    /\ ys' = cy
                    /\ allowed' = marked
                    /\ boundary' = marked
                    /\ pc' = "seed"
                    /\ UNCHANGED <<outcome, result, message>>

\* the two loops that enqueue the tiles of the outer frame
Seed ==
    /\ day = 9
    /\ pc = "seed"
    /\ LET st == SeedColumns(SeedRows([visited |-> {}, q |-> <<>>], 0), 0)
       IN  /\ visited' = st.visited
           /\ q' = st.q
    /\ dequeues' = 0
    /\ pc' = "flood"
    /\ UNCHANGED <<history, helpervars, othervars, day, part, instructions, connections, points, day8vars, xs, ys,
                   allowed, boundary, prefix, outcome, result, message>>

\* one pass of "while q:"
FloodStep ==
    /\ day = 9
    /\ pc = "flood"
    /\ q # <<>>
    /\ LET c == Head(q)
           st0 == [visited |-> visited, q |-> Tail(q)]
           st == enqueue(enqueue(enqueue(enqueue(st0, c[1] + 1, c[2]),
                                         c[1] - 1, c[2]), c[1], c[2] + 1),
                         c[1], c[2] - 1)
       IN  /\ visited' = st.visited
           /\ q' = st.q
    /\ dequeues' = dequeues + 1
    /\ UNCHANGED <<history, helpervars, othervars, day, part, instructions, connections, pc, points, day8vars, xs,
                   ys, allowed, boundary, prefix, outcome, result, message>>

\* the queue is empty: unvisited tiles become allowed, the prefix sums are
\* built and the rectangle search returns
Finish9 ==
    /\ day = 9
    /\ pc = "flood"
    /\ q = <<>>
    /\ LET alw == allowed \cup {t \in Tiles : t \notin visited}
           pf == BuildPrefix(alw)
       IN  /\ allowed' = alw
           /\ prefix' = pf
           /\ Return(SearchFrom(pf, 0, 1, 0))
    /\ UNCHANGED <<history, helpervars, othervars, day, part, instructions, connections, points, day8vars, xs, ys,
                   boundary, visited, q, dequeues>>

Next9 == Start9 \/ MarkBoundary \/ Seed \/ FloodStep \/ Finish9

----------------------------------------------------------------------------
(* A run is one call of one solver. *)

Init == Init8 \/ Init9

Next == Next8 \/ Next9

Spec == Init /\ [][Next]_vars

\* the flood fill's loop, once entered, runs on: it is sequential code with
\* nothing to wait for
SpecFair == Spec /\ WF_vars(FloodStep \/ Finish9)

----------------------------------------------------------------------------
(* One process that calls the solvers again and again, as main() and a      *)
(* test suite do.                                                          *)

SolverCall(d, p, ins, c) ==
    [day |-> d, part |-> p, instructions |-> ins, connections |-> c]

\* the calls the process makes, in any order and any number of times
RerunCalls ==
    {SolverCall(8, 1, <<<<"0", "0", "0">>, <<"1", "0", "0">>, <<"5", "5", "5">>>>, 1),
     SolverCall(8, 2, <<<<"0", "0", "0">>, <<"1", "0", "0">>, <<"5", "5", "5">>>>, 0),
     SolverCall(8, 2, <<<<"1", "1", "0">>>>, 0),
     SolverCall(9, 2, <<<<"0", "0">>, <<"4", "0">>, <<"4", "4">>, <<"0", "4">>>>, 0),
     SolverCall(8, 1, <<<<"0", "0", "0">>, <<"1", "x", "0">>>>, 1),
     SolverCall(9, 1, <<<<"0", "0">>, <<"4", "4">>>>, 0),
     SolverCall(9, 2, <<<<"0", "0">>, <<"4", "4">>>>, 0),
     SolverCall(9, 2, <<<<"0", "0">>, <<"4", "0">>, <<"4", "1">>, <<"1", "1">>,
                        <<"1", "4">>, <<"0", "4">>>>, 0)}

InitRerun ==
    /\ \E c \in RerunCalls :
          /\ day = c.day
          /\ part = c.part
          /\ instructions = c.instructions
          /\ connections = c.connections
    /\ pc = "start"
    /\ points = <<>>
    /\ Day8Idle
    /\ Day9Idle
    /\ outcome = "running"
    /\ result = 0
    /\ message = ""
    /\ history = {}
    /\ HelperIdle
    /\ OtherIdle

\* the call that has just returned or raised, with what came out of it
Completed ==
    [call |-> SolverCall(day, part, instructions, connections),
     outcome |-> outcome, result |-> result, message |-> message]

\* the caller goes on to its next call of a solver.  The locals of the call
\* that ended are gone; the model leaves their last values where they are,
\* as the garbage a new call starts with
Rerun ==
    /\ pc = "done"
    /\ history' = history \cup {Completed}
    /\ \E c \in RerunCalls :
          /\ day' = c.day
          /\ part' = c.part
          /\ instructions' = c.instructions
          /\ connections' = c.connections
    /\ pc' = "start"
    /\ outcome' = "running"
    /\ UNCHANGED <<points, day8vars, day9vars, result, message, helpervars, othervars>>

NextRerun == Next8 \/ Next9 \/ Rerun

SpecRerun == InitRerun /\ [][NextRerun]_vars

----------------------------------------------------------------------------
(* helper.py: strings.  A cookie or year is a TLA+ string taken from a      *)
(* small pool; the text of a file or of a response is a sequence of        *)
(* characters.                                                             *)

\* bool(s) for a string, and for os.getenv's result: None and "" are falsy
Truthy(s) == s # ""

\* s.strip() for the cookie and year strings of the model
StripOf ==
    ("" :> "") @@ (" " :> "") @@ ("abc" :> "abc") @@ ("def" :> "def")
        @@ ("2025" :> "2025") @@ ("2024" :> "2024") @@ ("1999" :> "1999")
        @@ ("x" :> "x")

\* int(s) for the year strings; a string outside the domain raises ValueError
YearInt == ("2025" :> 2025) @@ ("2024" :> 2024) @@ ("1999" :> 1999)

\* "2000 <= year_int <= 2100"
ReasonableYear(y) == 2000 <= y /\ y <= 2100

\* str.isspace for the characters of the model
IsSpace(c) == c \in {" ", "\n"}

RECURSIVE lstrip(_)
lstrip(s) ==
    IF s # <<>> /\ IsSpace(Head(s)) THEN lstrip(Tail(s)) ELSE s

RECURSIVE rstrip(_)
rstrip(s) ==
    IF s # <<>> /\ IsSpace(s[Len(s)]) THEN rstrip(SubSeq(s, 1, Len(s) - 1)) ELSE s

\* s.strip(): whitespace goes from both ends
strip(s) == lstrip(rstrip(s))

\* s.rstrip("\n")
RECURSIVE rstrip_newlines(_)
rstrip_newlines(s) ==
    IF s # <<>> /\ s[Len(s)] = "\n"
        THEN rstrip_newlines(SubSeq(s, 1, Len(s) - 1))
        ELSE s

\* s.split("\n"): the pieces between the newlines, so <<>> gives one empty
\* piece
RECURSIVE SplitFrom(_, _, _)
SplitFrom(s, i, piece) ==
    IF i > Len(s) THEN <<piece>>
    ELSE IF s[i] = "\n" THEN <<piece>> \o SplitFrom(s, i + 1, <<>>)
    ELSE SplitFrom(s, i + 1, Append(piece, s[i]))

\* 'text.split("\n") if text else []'
SplitLines(text) == IF text = <<>> THEN <<>> ELSE SplitFrom(text, 1, <<>>)

----------------------------------------------------------------------------
(* helper.py: credentials. *)

BothKeys == {"AOC_COOKIE", "YEAR"}

\* os.getenv(name); an unset variable is the empty string of the model,
\* which the code cannot tell from None: it only tests the value's truth
Getenv(name) == environ[name]

\* index of the first candidate path that exists, 0 if neither does
FirstExisting ==
    IF secret_files[1].kind # "absent" THEN 1
    ELSE IF secret_files[2].kind # "absent" THEN 2
    ELSE 0

\* what _load_secrets() returns or raises, and the cache it leaves
_load_secrets ==
    IF ~_secrets_cache.none THEN
        [outcome |-> "returned", secrets |-> _secrets_cache, cache |-> _secrets_cache]
    ELSE IF Truthy(Getenv("AOC_COOKIE")) /\ Truthy(Getenv("AOC_YEAR")) THEN
        LET d == Dict(BothKeys, Getenv("AOC_COOKIE"), Getenv("AOC_YEAR"))
        IN  [outcome |-> "returned", secrets |-> d, cache |-> d]
    ELSE IF FirstExisting = 0 THEN
        [outcome |-> "FileNotFoundError", secrets |-> None, cache |-> None]
    ELSE LET f == secret_files[FirstExisting]
         IN  IF f.kind = "unreadable" THEN
                 [outcome |-> "PermissionError", secrets |-> None, cache |-> None]
             ELSE IF f.kind = "invalid" THEN
                 [outcome |-> "ValueError", secrets |-> None, cache |-> None]
             ELSE [outcome |-> "returned", secrets |-> f.dict, cache |-> f.dict]

CredsRaise(exc, cache) ==
    [outcome |-> exc, cookie |-> "", year |-> "", cache |-> cache]

\* what _get_aoc_creds() returns or raises, and the cache it leaves
_get_aoc_creds ==
    LET l == _load_secrets
    IN  IF l.outcome # "returned" THEN CredsRaise(l.outcome, l.cache)
        ELSE IF l.secrets.keys # BothKeys THEN CredsRaise("KeyError", l.cache)
        ELSE LET cookie == l.secrets.AOC_COOKIE
                 year == StripOf[l.secrets.YEAR]
             IN  IF ~Truthy(cookie) \/ ~Truthy(StripOf[cookie])
                     THEN CredsRaise("ValueError", l.cache)
                 ELSE IF ~Truthy(year) THEN CredsRaise("ValueError", l.cache)
                 ELSE IF year \notin DOMAIN YearInt
                     THEN CredsRaise("ValueError", l.cache)
                 ELSE [outcome |-> "returned", cookie |-> StripOf[cookie],
                       year |-> year, cache |-> l.cache]

\* is_api_available(): the loop over the candidate paths from the i-th on
RECURSIVE FileCheckFrom(_)
FileCheckFrom(i) ==
    IF i > Len(secret_files) THEN FALSE
    ELSE LET f == secret_files[i]
         IN  IF f.kind = "absent" THEN FileCheckFrom(i + 1)
             ELSE IF f.kind \in {"unreadable", "invalid"} THEN FALSE
             ELSE IF f.dict.keys # BothKeys THEN FALSE
             ELSE IF ~Truthy(StripOf[f.dict.AOC_COOKIE]) THEN FALSE
             ELSE IF ~Truthy(StripOf[f.dict.YEAR]) THEN FALSE
             ELSE IF StripOf[f.dict.YEAR] \notin DOMAIN YearInt THEN FALSE
             ELSE IF ReasonableYear(YearInt[StripOf[f.dict.YEAR]]) THEN TRUE
             ELSE FileCheckFrom(i + 1)

is_api_available ==
    IF ~REQUESTS_AVAILABLE THEN FALSE
    ELSE IF Truthy(Getenv("AOC_COOKIE")) /\ Truthy(Getenv("AOC_YEAR")) THEN
        IF Getenv("AOC_YEAR") \notin DOMAIN YearInt THEN FALSE
        ELSE IF ReasonableYear(YearInt[Getenv("AOC_YEAR")]) THEN TRUE
        ELSE FileCheckFrom(1)
    ELSE FileCheckFrom(1)

----------------------------------------------------------------------------
(* helper.py: the calls that go to the server. *)

_MIN_DAY == 1
_MAX_DAY == 25
_MIN_LEVEL == 1
_MAX_LEVEL == 2

\* _validate_day and _validate_level do not raise
ValidDay(d) == _MIN_DAY <= d /\ d <= _MAX_DAY
ValidLevel(l) == _MIN_LEVEL <= l /\ l <= _MAX_LEVEL

\* what the server does with a request: 0 is no answer at all (the request
\* raises a RequestException that is not an HTTPError), the others are the
\* status of the response; raise_for_status() raises HTTPError from 400 on
Replies == {0, 200, 401, 403, 404}

\* bool(e.response), the left operand of "e.response and ...": requests
\* defines Response.__bool__ as Response.ok, false exactly when
\* raise_for_status() raises
ResponseTruth(status) == status < 400

\* the "except requests.HTTPError" clause of get_input and get_example
FetchError(status) ==
    IF ResponseTruth(status) /\ status = 404 THEN "FileNotFoundError"
    ELSE IF ResponseTruth(status) /\ status = 401 THEN "PermissionError"
    ELSE "RequestException"

\* the "except requests.HTTPError" clause of submit_answer; "returned" is
\* the branch that prints the error and returns
SubmitError(status) ==
    IF ResponseTruth(status) /\ status = 401 THEN "PermissionError"
    ELSE IF ResponseTruth(status) /\ status = 404 THEN "FileNotFoundError"
    ELSE "returned"

\* the verdict submit_answer prints for a response text, given as the set of
\* the phrases it contains
Verdict(phrases) ==
    IF "You gave an answer too recently" \in phrases THEN "TOO MANY REQUESTS"
    ELSE IF "not the right answer" \in phrases THEN
        IF "too low" \in phrases THEN "WRONG (TOO LOW)"
        ELSE IF "too high" \in phrases THEN "WRONG (TOO HIGH)"
        ELSE "WRONG (UNKNOWN)"
    ELSE IF "seem to be solving the right level" \in phrases
                \/ "already complete" \in phrases THEN "ALREADY SOLVED"
    ELSE IF "That's the right answer" \in phrases
                \/ "You have completed" \in phrases THEN "OK!"
    ELSE "UNKNOWN"

\* inputs of the calls
Days == {0, 1, 26}
Levels == {0, 1, 2, 3}
Texts == {<<>>, <<"\n">>, <<"a", "\n", " ", "a", "\n">>}
Pages == {<<>>, <<<<"\n", "a", "\n">>>>, <<<<"a">>, <<>>>>}
Answers == {"", " ", "abc"}
ResponsePhrases ==
    {{}, {"You gave an answer too recently"}, {"not the right answer", "too low"},
     {"not the right answer", "too high"}, {"not the right answer"},
     {"already complete"}, {"That's the right answer"}}

EnvCookies == {"", " ", "abc"}
EnvYears == {"", "2025", "1999"}
SecretFiles ==
    {Absent, Unreadable, InvalidJson, JsonFile(Dict(BothKeys, "def", "2024")),
     JsonFile(Dict({"AOC_COOKIE"}, "def", ""))}

\* the process before any helper call; no solver runs in it
SolverIdle ==
    /\ day = 0
    /\ part = 0
    /\ instructions = <<>>
    /\ connections = 0
    /\ pc = "idle"
    /\ points = <<>>
    /\ Day8Idle
    /\ Day9Idle
    /\ outcome = ""
    /\ result = 0
    /\ message = ""

InitHelper ==
    /\ SolverIdle
    /\ history = {}
    /\ REQUESTS_AVAILABLE \in BOOLEAN
    /\ environ = [AOC_COOKIE |-> "", AOC_YEAR |-> ""]
    /\ secret_files = <<Absent, Absent>>
    /\ _secrets_cache = None
    /\ last = NoCall
    /\ OtherIdle

\* the caller or its shell sets or clears AOC_COOKIE and AOC_YEAR
Setenv ==
    /\ \E c \in EnvCookies, y \in EnvYears :
          environ' = [AOC_COOKIE |-> c, AOC_YEAR |-> y]
    /\ environ' # environ
    /\ last' = NoCall
    /\ UNCHANGED <<solvervars, history, othervars, REQUESTS_AVAILABLE, secret_files, _secrets_cache>>

\* a secret.json is written, replaced or removed
WriteSecretFile ==
    /\ \E i \in 1..2, f \in SecretFiles :
          secret_files' = [secret_files EXCEPT ![i] = f]
    /\ secret_files' # secret_files
    /\ last' = NoCall
    /\ UNCHANGED <<solvervars, history, othervars, REQUESTS_AVAILABLE, environ, _secrets_cache>>

LoadSecrets ==
    /\ LET l == _load_secrets
       IN  /\ _secrets_cache' = l.cache
           /\ last' = [NoCall EXCEPT !.call = "_load_secrets", !.outcome = l.outcome,
                                     !.secrets = l.secrets]
    /\ UNCHANGED <<solvervars, history, othervars, REQUESTS_AVAILABLE, environ, secret_files>>

GetAocCreds ==
    /\ LET c == _get_aoc_creds
       IN  /\ _secrets_cache' = c.cache
           /\ last' = [NoCall EXCEPT
                          !.call = "_get_aoc_creds",
                          !.after_available = (last.call = "is_api_available" /\ last.value),
                          !.outcome = c.outcome, !.cookie = c.cookie, !.year = c.year]
    /\ UNCHANGED <<solvervars, history, othervars, REQUESTS_AVAILABLE, environ, secret_files>>

IsApiAvailable ==
    /\ last' = [NoCall EXCEPT !.call = "is_api_available", !.outcome = "returned",
                              !.value = is_api_available]
    /\ UNCHANGED <<solvervars, history, othervars, REQUESTS_AVAILABLE, environ, secret_files,
                   _secrets_cache>>

\* get_input(day); for a 200 the response text is one of Texts
GetInput ==
    /\ \E d \in Days :
          LET call == [NoCall EXCEPT !.call = "get_input"]
              Sent(reply) ==
                  IF reply = 0 THEN
                      last' = [call EXCEPT !.outcome = "RequestException"]
                  ELSE IF reply >= 400 THEN
                      last' = [call EXCEPT !.status = reply,
                                           !.outcome = FetchError(reply)]
                  ELSE \E text \in Texts :
                          last' = [call EXCEPT
                                      !.status = reply, !.outcome = "returned",
                                      !.content = text,
                                      !.lines = IF text = <<>> THEN <<>>
                                                ELSE SplitLines(rstrip_newlines(text))]
          IN  IF ~ValidDay(d) THEN
                  /\ last' = [call EXCEPT !.outcome = "ValueError"]
                  /\ UNCHANGED _secrets_cache
              ELSE IF ~REQUESTS_AVAILABLE THEN
                  /\ last' = [call EXCEPT !.outcome = "ImportError"]
                  /\ UNCHANGED _secrets_cache
              ELSE LET c == _get_aoc_creds
                   IN  /\ _secrets_cache' = c.cache
                       /\ IF c.outcome # "returned"
                              THEN last' = [call EXCEPT !.outcome = c.outcome]
                              ELSE \E reply \in Replies : Sent(reply)
    /\ UNCHANGED <<solvervars, history, othervars, REQUESTS_AVAILABLE, environ, secret_files>>

\* get_example(day, part); for a 200 the page has the <pre><code> blocks
\* of one of Pages
GetExample ==
    /\ \E d \in Days, p \in Levels :
          LET call == [NoCall EXCEPT !.call = "get_example"]
              Sent(reply) ==
                  IF reply = 0 THEN
                      last' = [call EXCEPT !.outcome = "RequestException"]
                  ELSE IF reply >= 400 THEN
                      last' = [call EXCEPT !.status = reply,
                                           !.outcome = FetchError(reply)]
                  ELSE \E page \in Pages :
                          last' =
                              IF Len(page) + 1 <= p THEN
                                  [call EXCEPT !.status = reply,
                                               !.outcome = "IndexError"]
                              ELSE [call EXCEPT
                                       !.status = reply, !.outcome = "returned",
                                       !.content = page[p],
                                       !.lines = SplitLines(strip(page[p]))]
          IN  IF ~ValidDay(d) \/ ~ValidLevel(p) THEN
                  /\ last' = [call EXCEPT !.outcome = "ValueError"]
                  /\ UNCHANGED _secrets_cache
              ELSE IF ~REQUESTS_AVAILABLE THEN
                  /\ last' = [call EXCEPT !.outcome = "ImportError"]
                  /\ UNCHANGED _secrets_cache
              ELSE LET c == _get_aoc_creds
                   IN  /\ _secrets_cache' = c.cache
                       /\ IF c.outcome # "returned"
                              THEN last' = [call EXCEPT !.outcome = c.outcome]
                              ELSE \E reply \in Replies : Sent(reply)
    /\ UNCHANGED <<solvervars, history, othervars, REQUESTS_AVAILABLE, environ, secret_files>>

\* submit_answer(day, level, answer); interrupted is Ctrl+C at the prompt,
\* and for a 200 the response text holds one of ResponsePhrases
SubmitAnswer ==
    /\ \E d \in Days, l \in Levels, answer \in Answers, interrupted \in BOOLEAN :
          LET call == [NoCall EXCEPT !.call = "submit_answer"]
              Sent(reply) ==
                  IF reply = 0 THEN
                      last' = [call EXCEPT !.outcome = "returned", !.verdict = "error"]
                  ELSE IF reply >= 400 THEN
                      last' = [call EXCEPT
                                  !.status = reply, !.outcome = SubmitError(reply),
                                  !.verdict = IF SubmitError(reply) = "returned"
                                                  THEN "error" ELSE ""]
                  ELSE \E phrases \in ResponsePhrases :
                          last' = [call EXCEPT !.status = reply,
                                               !.outcome = "returned",
                                               !.verdict = Verdict(phrases)]
          IN  IF ~ValidDay(d) \/ ~ValidLevel(l) THEN
                  /\ last' = [call EXCEPT !.outcome = "ValueError"]
                  /\ UNCHANGED _secrets_cache
              ELSE IF ~REQUESTS_AVAILABLE THEN
                  /\ last' = [call EXCEPT !.outcome = "ImportError"]
                  /\ UNCHANGED _secrets_cache
              ELSE IF ~Truthy(StripOf[answer]) THEN
                  /\ last' = [call EXCEPT !.outcome = "ValueError"]
                  /\ UNCHANGED _secrets_cache
              ELSE IF interrupted THEN
                  /\ last' = [call EXCEPT !.outcome = "returned",
                                          !.verdict = "cancelled"]
                  /\ UNCHANGED _secrets_cache
              ELSE LET c == _get_aoc_creds
                   IN  /\ _secrets_cache' = c.cache
                       /\ IF c.outcome # "returned"
                              THEN last' = [call EXCEPT !.outcome = c.outcome]
                              ELSE \E reply \in Replies : Sent(reply)
    /\ UNCHANGED <<solvervars, history, othervars, REQUESTS_AVAILABLE, environ, secret_files>>

NextHelper ==
    \/ Setenv \/ WriteSecretFile \/ LoadSecrets \/ GetAocCreds \/ IsApiAvailable
    \/ GetInput \/ GetExample \/ SubmitAnswer

SpecHelper == InitHelper /\ [][NextHelper]_vars

----------------------------------------------------------------------------
(* helper.py: the calls that read a local file. *)

\* the characters of a file: a space, a letter and the newline
Chars == {" ", "a", "\n"}

\* what is at the path Day<day>/day<day>_input.txt or ..._example.txt
NoFile == [kind |-> "absent", content |-> <<>>]
Directory == [kind |-> "directory", content |-> <<>>]
UnreadableFile == [kind |-> "unreadable", content |-> <<>>]
TextFile(content) == [kind |-> "text", content |-> content]

LocalFiles ==
    {NoFile, Directory, UnreadableFile}
        \cup {TextFile(content) : content \in SeqsUpTo(Chars, 0, MaxChars)}

\* the body shared by manually_get_input and manually_get_example, from
\* _validate_day to the return
manually_get(name, d, f) ==
    LET call == [NoCall EXCEPT !.call = name]
    IN  IF ~ValidDay(d) THEN [call EXCEPT !.outcome = "ValueError"]
        ELSE IF f.kind = "absent" THEN [call EXCEPT !.outcome = "FileNotFoundError"]
        ELSE IF f.kind = "directory" THEN [call EXCEPT !.outcome = "ValueError"]
        ELSE IF f.kind = "unreadable" THEN [call EXCEPT !.outcome = "PermissionError"]
        ELSE [call EXCEPT !.outcome = "returned", !.content = f.content,
                          !.lines = SplitLines(strip(f.content))]

ManuallyGetInput ==
    /\ \E d \in Days, f \in LocalFiles :
          last' = manually_get("manually_get_input", d, f)
    /\ UNCHANGED <<solvervars, history, othervars, REQUESTS_AVAILABLE, environ, secret_files,
                   _secrets_cache>>

ManuallyGetExample ==
    /\ \E d \in Days, f \in LocalFiles :
          last' = manually_get("manually_get_example", d, f)
    /\ UNCHANGED <<solvervars, history, othervars, REQUESTS_AVAILABLE, environ, secret_files,
                   _secrets_cache>>

NextFiles == ManuallyGetInput \/ ManuallyGetExample

SpecFiles == InitHelper /\ [][NextFiles]_vars

----------------------------------------------------------------------------
(* Day 7 solve_part_two.  A row of the grid is a sequence of characters;   *)
(* Python's row r, column c is instructions[r + 1][c + 1].                 *)

\* rows of width 3, and two shorter rows that make a grid ragged
Rows7 ==
    {<<".", "S", ".">>, <<"S", ".", "^">>, <<".", ".", ".">>, <<".", "^", ".">>,
     <<"^", ".", ".">>, <<".", ".", "^">>, <<"^", ".", "^">>, <<"^", "^", ".">>,
     <<"S">>, <<".", "^">>}

Inputs7 == SeqsUpTo(Rows7, 0, MaxRows7)

\* row.find(ch): the first column that holds ch, -1 if none does
Find(row, ch) ==
    IF \E i \in 1..Len(row) : row[i] = ch
        THEN (CHOOSE i \in 1..Len(row) : row[i] = ch /\ \A j \in 1..(i - 1) : row[j] # ch) - 1
        ELSE -1

FindStartError(msg) == [ok |-> FALSE, message |-> msg, row |-> 0, col |-> 0, width |-> 0]

\* the loop "for r, row in enumerate(instructions)" of _find_start from row r
RECURSIVE FindStartFrom(_, _)
FindStartFrom(rows, r) ==
    IF r >= Len(rows) THEN FindStartError("Start position 'S' not found in grid")
    ELSE IF Find(rows[r + 1], "S") # -1
        THEN [ok |-> TRUE, message |-> "", row |-> r, col |-> Find(rows[r + 1], "S"),
              width |-> Len(rows[1])]
    ELSE FindStartFrom(rows, r + 1)

_find_start(rows) ==
    IF rows = <<>> THEN FindStartError("Input is empty")
    ELSE IF \E r \in 1..Len(rows) : Len(rows[r]) # Len(rows[1])
        THEN FindStartError("All rows must have equal length")
    ELSE FindStartFrom(rows, 0)

\* next_active[col] = count: the count already there is lost
AddTo_Overwrite(na, col, count) ==
    IF col \in DOMAIN na THEN [na EXCEPT ![col] = count] ELSE na @@ (col :> count)

\* next_active[col] = next_active.get(col, 0) + count
AddTo(na, col, count) ==
    IF col \in DOMAIN na THEN [na EXCEPT ![col] = na[col] + count] ELSE na @@ (col :> count)

\* one pass of "for new_col in (col - 1, col + 1)"
Branch(st, w, new_col, count) ==
    IF 0 <= new_col /\ new_col < w
        THEN [st EXCEPT !.next_active = AddTo(st.next_active, new_col, count)]
        ELSE [st EXCEPT !.finished = st.finished + count]

\* the loop "for col, count in active.items()" over the columns of cols;
\* the sums it builds do not depend on the order of the columns
RECURSIVE ProcessCols(_, _, _, _, _)
ProcessCols(row, w, act, cols, st) ==
    IF cols = {} THEN st
    ELSE LET col == MinOf(cols)
             after ==
                 IF row[col + 1] = "^"
                     THEN Branch(Branch(st, w, col - 1, act[col]), w, col + 1, act[col])
                     ELSE [st EXCEPT !.next_active = AddTo(st.next_active, col, act[col])]
         IN  ProcessCols(row, w, act, cols \ {col}, after)

\* sum(active.values())
RECURSIVE SumValues(_, _)
SumValues(act, cols) ==
    IF cols = {} THEN 0
    ELSE LET col == MinOf(cols) IN act[col] + SumValues(act, cols \ {col})

Init7 ==
    /\ day = 7
    /\ part = 2
    /\ instructions \in Inputs7
    /\ connections = 0
    /\ pc = "start"
    /\ points = <<>>
    /\ Day8Idle
    /\ Day9Idle
    /\ outcome = "running"
    /\ result = 0
    /\ message = ""
    /\ history = {}
    /\ HelperIdle
    /\ OtherIdle

\* solve_part_two's empty-input return, then _find_start
Start7 ==
    /\ day = 7
    /\ pc = "start"
    /\ IF instructions = <<>> THEN
           /\ Return(0)
           /\ UNCHANGED day7vars
       ELSE LET fs == _find_start(instructions)
            IN  IF ~fs.ok THEN
                    /\ Raise(fs.message)
                    /\ UNCHANGED day7vars
                ELSE
                    /\ row_idx' = fs.row
                    /\ width' = fs.width
                    /\ active' = (fs.col :> 1)
                    /\ finished' = 0
                    /\ pc' = "rows"
                    /\ UNCHANGED <<outcome, result, message>>
    /\ UNCHANGED <<history, helpervars, besides7, day, part, instructions, connections, points,
                   day8vars, day9vars>>

\* one pass of "for row_idx in range(start_row, len(instructions))"
RowStep7 ==
    /\ day = 7
    /\ pc = "rows"
    /\ row_idx < Len(instructions)
    /\ DOMAIN active # {}
    /\ LET st == ProcessCols(instructions[row_idx + 1], width, active, DOMAIN active,
                             [next_active |-> <<>>, finished |-> finished])
       IN  /\ active' = st.next_active
           /\ finished' = st.finished
    /\ row_idx' = row_idx + 1
    /\ UNCHANGED <<history, helpervars, besides7, day, part, instructions, connections, pc, points,
                   day8vars, day9vars, width, outcome, result, message>>

\* the loop is over, by the last row or by the break on an empty dict
Finish7 ==
    /\ day = 7
    /\ pc = "rows"
    /\ row_idx >= Len(instructions) \/ DOMAIN active = {}
    /\ Return(finished + SumValues(active, DOMAIN active))
    /\ UNCHANGED <<history, helpervars, besides7, day, part, instructions, connections, points,
                   day8vars, day9vars, day7vars>>

Next7 == Start7 \/ RowStep7 \/ Finish7

SpecDay7 == Init7 /\ [][Next7]_vars

----------------------------------------------------------------------------
(* Day 5 solve_part_two.  A line is a sequence of characters. *)

DigitValue ==
    ("0" :> 0) @@ ("1" :> 1) @@ ("2" :> 2) @@ ("3" :> 3) @@ ("4" :> 4)
        @@ ("5" :> 5) @@ ("6" :> 6) @@ ("7" :> 7) @@ ("8" :> 8) @@ ("9" :> 9)

\* the number a sequence of digits stands for
RECURSIVE DecimalValue(_)
DecimalValue(ds) ==
    IF ds = <<>> THEN 0
    ELSE 10 * DecimalValue(SubSeq(ds, 1, Len(ds) - 1)) + DigitValue[ds[Len(ds)]]

\* int(s): spaces around are dropped, then an optional sign and at least one
\* digit; ok is FALSE where int raises ValueError
IntOf(s) ==
    LET t == strip(s)
        signed == t # <<>> /\ t[1] \in {"-", "+"}
        body == IF signed THEN Tail(t) ELSE t
        ok == body # <<>> /\ \A i \in 1..Len(body) : body[i] \in DOMAIN DigitValue
    IN  [ok |-> ok,
         value |-> IF ~ok THEN 0
                   ELSE IF signed /\ t[1] = "-" THEN 0 - DecimalValue(body)
                   ELSE DecimalValue(body)]

HasDash(line) == \E i \in 1..Len(line) : line[i] = "-"

\* the first loop: the stripped lines that are not empty and hold a "-"
RECURSIVE RangeLines(_)
RangeLines(lines) ==
    IF lines = <<>> THEN <<>>
    ELSE LET line == strip(Head(lines))
         IN  IF line # <<>> /\ HasDash(line)
                 THEN <<line>> \o RangeLines(Tail(lines))
                 ELSE RangeLines(Tail(lines))

\* the body of the second loop for one range line: r.split("-", 1), int of
\* both pieces, the smaller one first; ok is FALSE where the except clause
\* skips the line
ParseRange(r) ==
    LET i == CHOOSE k \in 1..Len(r) : r[k] = "-" /\ \A j \in 1..(k - 1) : r[j] # "-"
        a == IntOf(SubSeq(r, 1, i - 1))
        b == IntOf(SubSeq(r, i + 1, Len(r)))
    IN  [ok |-> a.ok /\ b.ok,
         range |-> IF a.value <= b.value THEN <<a.value, b.value>>
                   ELSE <<b.value, a.value>>]

RECURSIVE ParseRanges(_)
ParseRanges(ranges) ==
    IF ranges = <<>> THEN <<>>
    ELSE LET pr == ParseRange(Head(ranges))
         IN  IF pr.ok THEN <<pr.range>> \o ParseRanges(Tail(ranges))
             ELSE ParseRanges(Tail(ranges))

\* the else branch without max(): the end of the last merged range is set
\* to the end of the range at hand
MergeInto_NoMax(merged, r) ==
    IF merged = <<>> \/ r[1] > merged[Len(merged)][2] + 1
        THEN Append(merged, r)
        ELSE [merged EXCEPT ![Len(merged)] = <<merged[Len(merged)][1], r[2]>>]

\* the body of "for start, end in parsed_ranges"
MergeInto(merged, r) ==
    IF merged = <<>> \/ r[1] > merged[Len(merged)][2] + 1
        THEN Append(merged, r)
        ELSE [merged EXCEPT ![Len(merged)] =
                 <<merged[Len(merged)][1], Max2(merged[Len(merged)][2], r[2])>>]

\* sum(end - start + 1 for start, end in merged_ranges)
RECURSIVE SumLengths(_)
SumLengths(merged) ==
    IF merged = <<>> THEN 0
    ELSE (Head(merged)[2] - Head(merged)[1] + 1) + SumLengths(Tail(merged))

\* ranges in both orders, nested, adjacent, apart, with spaces, with a
\* negative end; lines the parse skips; a blank line; an ingredient line
Lines5 ==
    {<<"1", "-", "3">>,
     <<"3", "-", "1">>,
     <<"2", "-", "2">>,
     <<" ", "4", " ", "-", " ", "5">>,
     <<"6", "-", "9">>,
     <<"2", "-", "7">>,
     <<"8", "-", "1", "0">>,
     <<"0", "-", "-", "1">>,
     <<"-", "1", "-", "2">>,
     <<"x", "-", "1">>,
     <<>>,
     <<"5">>}

Inputs5 == SeqsUpTo(Lines5, 0, MaxLines5)

Init5 ==
    /\ day = 5
    /\ part = 2
    /\ instructions \in Inputs5
    /\ connections = 0
    /\ pc = "start"
    /\ points = <<>>
    /\ Day8Idle
    /\ Day9Idle
    /\ outcome = "running"
    /\ result = 0
    /\ message = ""
    /\ history = {}
    /\ HelperIdle
    /\ OtherIdle

\* the two parsing loops, the return for no range, and the sort
Start5 ==
    /\ day = 5
    /\ pc = "start"
    /\ LET parsed == ParseRanges(RangeLines(instructions))
       IN  IF parsed = <<>> THEN
               /\ Return(0)
               /\ UNCHANGED day5vars
           ELSE
               /\ parsed_ranges' = SortByKey(parsed, <<>>)
               /\ merged_ranges' = <<>>
               /\ range_idx' = 0
               /\ pc' = "merge"
               /\ UNCHANGED <<outcome, result, message>>
    /\ UNCHANGED <<history, helpervars, besides5, day, part, instructions, connections,
                   points, day8vars, day9vars>>

\* one pass of "for start, end in parsed_ranges"
MergeStep5 ==
    /\ day = 5
    /\ pc = "merge"
    /\ range_idx < Len(parsed_ranges)
    /\ merged_ranges' = MergeInto(merged_ranges, parsed_ranges[range_idx + 1])
    /\ range_idx' = range_idx + 1
    /\ UNCHANGED <<history, helpervars, besides5, day, part, instructions, connections,
                   pc, points, day8vars, day9vars, parsed_ranges, outcome, result,
                   message>>

Finish5 ==
    /\ day = 5
    /\ pc = "merge"
    /\ range_idx = Len(parsed_ranges)
    /\ Return(SumLengths(merged_ranges))
    /\ UNCHANGED <<history, helpervars, besides5, day, part, instructions, connections,
                   points, day8vars, day9vars, day5vars>>

Next5 == Start5 \/ MergeStep5 \/ Finish5

SpecDay5 == Init5 /\ [][Next5]_vars

----------------------------------------------------------------------------
(* Day 3 solve_part_one.  A line is a sequence of characters; "sup2" stands
   for the one character U+00B2 (superscript two), for which str.isdigit()
   is True and which int() does not accept. *)

\* ord(c) of the characters of the model
CodePoint == ("1" :> 49) @@ ("9" :> 57) @@ ("a" :> 97) @@ ("sup2" :> 178)

Chars3 == DOMAIN CodePoint

\* char.isdigit()
isdigit(c) == c \in DOMAIN DigitValue \/ c = "sup2"

\* [char for char in line if char.isdigit()]
RECURSIVE DigitsOf(_)
DigitsOf(ln) ==
    IF ln = <<>> THEN <<>>
    ELSE IF isdigit(Head(ln)) THEN <<Head(ln)>> \o DigitsOf(Tail(ln))
    ELSE DigitsOf(Tail(ln))

\* max(ds) of a list of one-character strings: the greatest code point
MaxChar(ds) ==
    CHOOSE c \in {ds[i] : i \in 1..Len(ds)} :
        \A i \in 1..Len(ds) : CodePoint[ds[i]] <= CodePoint[c]

\* ds.index(c), counted from 1
IndexOf(ds, c) == CHOOSE i \in 1..Len(ds) : ds[i] = c /\ \A j \in 1..(i - 1) : ds[j] # c

\* the body of the loop for a line of at least two digits: the branch taken
\* and int() of the two characters put together
FormedNumber(ds) ==
    LET biggest_int == MaxChar(ds)
        biggest_int_index == IndexOf(ds, biggest_int)
        digits_after_biggest == SubSeq(ds, biggest_int_index + 1, Len(ds))
    IN  IF digits_after_biggest # <<>> THEN
            [branch |-> "after",
             number |-> IntOf(<<biggest_int, MaxChar(digits_after_biggest)>>)]
        ELSE
            LET digits_before_biggest == SubSeq(ds, 1, biggest_int_index - 1)
                second_biggest_int == MaxChar(digits_before_biggest)
                second_biggest_int_index == IndexOf(ds, second_biggest_int)
                digits_after_second_biggest ==
                    SubSeq(ds, second_biggest_int_index + 1, Len(ds))
            IN  IF digits_after_second_biggest # <<>> THEN
                    [branch |-> "before",
                     number |-> IntOf(<<second_biggest_int,
                                        MaxChar(digits_after_second_biggest)>>)]
                ELSE
                    [branch |-> "zero", number |-> [ok |-> TRUE, value |-> 0]]

Lines3 == SeqsUpTo(Chars3, 0, MaxChars3)

Init3 ==
    /\ day = 3
    /\ part = 1
    /\ instructions = <<>>
    /\ connections = 0
    /\ pc = "start"
    /\ points = <<>>
    /\ Day8Idle
    /\ Day9Idle
    /\ outcome = "running"
    /\ result = 0
    /\ message = ""
    /\ history = {}
    /\ HelperIdle
    /\ OtherIdle

\* one pass of "for line in instructions", the line being any line
LineStep3 ==
    /\ day = 3
    /\ pc = "start"
    /\ line_idx < MaxLines3
    /\ \E ln \in Lines3 :
          /\ line3' = ln
          /\ line_idx' = line_idx + 1
          /\ IF Len(DigitsOf(ln)) < 2 THEN
                 /\ branch' = "continue"
                 /\ UNCHANGED <<pc, outcome, result, message>>
             ELSE
                 LET formed == FormedNumber(DigitsOf(ln))
                 IN  /\ branch' = formed.branch
                     /\ IF formed.number.ok THEN
                            /\ result' = result + formed.number.value
                            /\ UNCHANGED <<pc, outcome, message>>
                        ELSE
                            /\ pc' = "done"
                            /\ outcome' = "ValueError"
                            /\ message' = "invalid literal for int() with base 10"
                            /\ UNCHANGED result
    /\ UNCHANGED <<history, helpervars, besides3, day, part, instructions, connections,
                   points, day8vars, day9vars>>

\* the end of the list: return result
Finish3 ==
    /\ day = 3
    /\ pc = "start"
    /\ Return(result)
    /\ UNCHANGED <<history, helpervars, besides3, day, part, instructions, connections,
                   points, day8vars, day9vars, day3vars>>

Next3 == LineStep3 \/ Finish3

SpecDay3 == Init3 /\ [][Next3]_vars

----------------------------------------------------------------------------
(* Day 1: first_part and second_part, run side by side on the same lines.
   A line is a sequence of characters. *)

DIAL_START == 50
DIAL_LIMITS == <<0, 99>>
SPAN == DIAL_LIMITS[2] - DIAL_LIMITS[1] + 1

\* the dial is moved without the modulo
Turn_NoWrap(position, amount) == position + amount

\* (my_dial_position + amount - DIAL_LIMITS[0]) % SPAN + DIAL_LIMITS[0]
Turn(position, amount) ==
    ((position + amount - DIAL_LIMITS[1]) % SPAN) + DIAL_LIMITS[1]

\* line = line.strip(); line = [line[0], int(line[1:])]: IndexError for an
\* empty line, ValueError where int() refuses the rest
ParseLine1(text) ==
    LET stripped == strip(text)
    IN  IF stripped = <<>> THEN [error |-> "IndexError", letter |-> "", amount |-> 0]
        ELSE LET n == IntOf(Tail(stripped))
             IN  IF ~n.ok THEN [error |-> "ValueError", letter |-> "", amount |-> 0]
                 ELSE [error |-> "", letter |-> Head(stripped), amount |-> n.value]

\* the body of first_part's loop after the parse
FirstPartLine(position, zeroes, letter, amount) ==
    LET moved == IF letter = "R" THEN Turn(position, amount)
                 ELSE IF letter = "L" THEN Turn(position, 0 - amount)
                 ELSE position
    IN  [position |-> moved, zeroes |-> IF moved = 0 THEN zeroes + 1 ELSE zeroes]

\* range(line[1]) of second_part: the passes its inner loop makes
RangeLen(letter, amount) ==
    IF letter \in {"R", "L"} /\ amount > 0 THEN amount ELSE 0

\* the step of a click: + 1 for R, - 1 for L
Delta(letter) == IF letter = "R" THEN 1 ELSE 0 - 1

\* rotations to 0, by 0, by a full turn, with spaces;
\* another letter, a negative amount, an empty line, no number
Lines1 ==
    {<<"R", "5", "0">>,
     <<"L", "5", "0">>,
     <<"R", "0">>,
     <<"L", "0">>,
     <<"R", "1", "0", "0">>,
     <<" ", "L", "4", "9">>,
     <<"X", "5">>,
     <<"R", "-", "5">>,
     <<>>,
     <<"R", "x">>}

Inputs1 == SeqsUpTo(Lines1, 0, MaxLines1)

Init1 ==
    /\ day = 1
    /\ part = 1
    /\ instructions \in Inputs1
    /\ connections = 0
    /\ pc = "start"
    /\ points = <<>>
    /\ Day8Idle
    /\ Day9Idle
    /\ outcome = "running"
    /\ result = 0
    /\ message = ""
    /\ history = {}
    /\ HelperIdle
    /\ OtherIdle

\* my_dial_position = DIAL_START; zeroes = 0, in both parts
Start1 ==
    /\ day = 1
    /\ pc = "start"
    /\ first_position' = DIAL_START
    /\ first_zeroes' = 0
    /\ second_position' = DIAL_START
    /\ second_zeroes' = 0
    /\ line_no' = 0
    /\ clicks_left' = 0
    /\ pc' = "loop"
    /\ UNCHANGED <<history, helpervars, besides1, day, part, instructions, connections,
                   points, day8vars, day9vars, outcome, result, message>>

\* the next line in both parts: the parse, the whole pass of first_part's
\* loop, and second_part up to its inner loop
LineStep1 ==
    /\ day = 1
    /\ pc = "loop"
    /\ clicks_left = 0
    /\ line_no < Len(instructions)
    /\ LET line == ParseLine1(instructions[line_no + 1])
           first == FirstPartLine(first_position, first_zeroes, line.letter, line.amount)
       IN  IF line.error # "" THEN
               /\ pc' = "done"
               /\ outcome' = line.error
               /\ UNCHANGED <<result, message, day1vars>>
           ELSE
               /\ first_position' = first.position
               /\ first_zeroes' = first.zeroes
               /\ clicks_left' = RangeLen(line.letter, line.amount)
               /\ line_no' = line_no + 1
               /\ UNCHANGED <<pc, outcome, result, message, second_position, second_zeroes>>
    /\ UNCHANGED <<history, helpervars, besides1, day, part, instructions, connections,
                   points, day8vars, day9vars>>

\* one pass of second_part's "for _ in range(line[1])": a click, counted
\* when it lands on 0
ClickStep1 ==
    /\ day = 1
    /\ pc = "loop"
    /\ clicks_left > 0
    /\ LET moved == Turn(second_position, Delta(ParseLine1(instructions[line_no]).letter))
       IN  /\ second_position' = moved
           /\ second_zeroes' = IF moved = 0 THEN second_zeroes + 1 ELSE second_zeroes
    /\ clicks_left' = clicks_left - 1
    /\ UNCHANGED <<history, helpervars, besides1, day, part, instructions, connections,
                   points, day8vars, day9vars, pc, outcome, result, message,
                   first_position, first_zeroes, line_no>>

\* return zeroes: result is what first_part returns, second_zeroes what
\* second_part returns
Finish1 ==
    /\ day = 1
    /\ pc = "loop"
    /\ clicks_left = 0
    /\ line_no = Len(instructions)
    /\ Return(first_zeroes)
    /\ UNCHANGED <<history, helpervars, besides1, day, part, instructions, connections,
                   points, day8vars, day9vars, day1vars>>

Next1 == Start1 \/ LineStep1 \/ ClickStep1 \/ Finish1

SpecDay1 == Init1 /\ [][Next1]_vars

----------------------------------------------------------------------------
(* create_day.py create_day_from_template.  A directory on disk is a record:
   whether the path exists, the names of the files in it, and the value of
   the DAY constant of its main.py.  The names day<N>_example.txt and
   day<N>_input.txt are written dayN_example.txt and dayN_input.txt. *)

NoDirectory == [exists |-> FALSE, files |-> {}, DAY |-> 0]

\* files_to_copy: (src_name, dst_name)
files_to_copy ==
    <<<<"main.py", "main.py">>,
      <<"day0_example.txt", "dayN_example.txt">>,
      <<"day0_input.txt", "dayN_input.txt">>>>

TemplateFileNames == {files_to_copy[i][1] : i \in 1..Len(files_to_copy)}

\* no template directory, or one with any of the three files
TemplateDirs ==
    {NoDirectory} \cup {[exists |-> TRUE, files |-> fs, DAY |-> 0] : fs \in SUBSET TemplateFileNames}

\* no Day<N> yet, an empty one, or one somebody has worked in
DayDirs ==
    {NoDirectory,
     [exists |-> TRUE, files |-> {}, DAY |-> 0],
     [exists |-> TRUE, files |-> {"main.py", "dayN_input.txt", "notes.txt"}, DAY |-> 1]}

CreateDays == {0, 1, 25, 26}

\* the handler leaves the directory alone
rmtree_KeepsDirectory(dir) == dir

\* shutil.rmtree(day_dir) when it succeeds
rmtree(dir) == NoDirectory

InitCreate ==
    /\ SolverIdle
    /\ history = {}
    /\ HelperIdle
    /\ OtherIdle

\* create_day_from_template(day, template_dir, project_root) is called
CallCreate ==
    /\ create_pc = "idle"
    /\ \E d \in CreateDays, t \in TemplateDirs, dd \in DayDirs :
          /\ new_day' = d
          /\ template_dir' = t
          /\ day_dir' = dd
          /\ day_dir_before' = dd
    /\ create_pc' = "check"
    /\ UNCHANGED <<solvervars, history, helpervars, besidescreate, copy_idx, created,
                   rmtree_failed, raised>>

\* the three checks before the try block
CheckArguments ==
    /\ create_pc = "check"
    /\ IF ~(1 <= new_day /\ new_day <= 25) THEN
           /\ raised' = "ValueError"
           /\ create_pc' = "done"
       ELSE IF day_dir.exists THEN
           /\ raised' = "ValueError"
           /\ create_pc' = "done"
       ELSE IF ~template_dir.exists THEN
           /\ raised' = "FileNotFoundError"
           /\ create_pc' = "done"
       ELSE
           /\ create_pc' = "mkdir"
           /\ UNCHANGED raised
    /\ UNCHANGED <<solvervars, history, helpervars, besidescreate, new_day, template_dir,
                   day_dir, day_dir_before, copy_idx, created, rmtree_failed>>

\* day_dir.mkdir(parents=False, exist_ok=False): the directory is made, or
\* the call raises OSError and nothing is made
MakeDirectory ==
    /\ create_pc = "mkdir"
    /\ \E ok \in BOOLEAN :
          IF ok THEN
              /\ day_dir' = [exists |-> TRUE, files |-> {}, DAY |-> 0]
              /\ created' = TRUE
              /\ create_pc' = "copy"
          ELSE
              /\ create_pc' = "except"
              /\ UNCHANGED <<day_dir, created>>
    /\ copy_idx' = 0
    /\ UNCHANGED <<solvervars, history, helpervars, besidescreate, new_day, template_dir,
                   day_dir_before, rmtree_failed, raised>>

\* one pass of "for src_name, dst_name in files_to_copy": a missing source
\* is skipped; shutil.copy2 copies the file, or raises OSError with the
\* destination written or not
CopyFile ==
    /\ create_pc = "copy"
    /\ copy_idx < Len(files_to_copy)
    /\ copy_idx' = copy_idx + 1
    /\ LET src_name == files_to_copy[copy_idx + 1][1]
           dst_name == files_to_copy[copy_idx + 1][2]
       IN  IF src_name \notin template_dir.files THEN
               UNCHANGED <<day_dir, create_pc>>
           ELSE
               \E ok \in BOOLEAN, written \in BOOLEAN :
                   /\ ok => written
                   /\ day_dir' = IF written
                                     THEN [day_dir EXCEPT !.files = @ \cup {dst_name}]
                                     ELSE day_dir
                   /\ create_pc' = IF ok THEN "copy" ELSE "except"
    /\ UNCHANGED <<solvervars, history, helpervars, besidescreate, new_day, template_dir,
                   day_dir_before, created, rmtree_failed, raised>>

\* after the loop: update_day_constant when main.py is there (it catches
\* every exception of its own and then leaves the constant), and the return
UpdateAndReturn ==
    /\ create_pc = "copy"
    /\ copy_idx = Len(files_to_copy)
    /\ IF "main.py" \in day_dir.files
           THEN \E updated \in BOOLEAN :
                    day_dir' = IF updated THEN [day_dir EXCEPT !.DAY = new_day] ELSE day_dir
           ELSE UNCHANGED day_dir
    /\ create_pc' = "done"
    /\ UNCHANGED <<solvervars, history, helpervars, besidescreate, new_day, template_dir,
                   day_dir_before, copy_idx, created, rmtree_failed, raised>>

\* except OSError: shutil.rmtree(day_dir) if it exists, an OSError of
\* rmtree being passed over with any part of the directory left; then
\* raise OSError
HandleOSError ==
    /\ create_pc = "except"
    /\ IF day_dir.exists THEN
           \E ok \in BOOLEAN :
               IF ok THEN
                   /\ day_dir' = rmtree(day_dir)
                   /\ UNCHANGED rmtree_failed
               ELSE
                   /\ \E left \in SUBSET day_dir.files :
                          day_dir' = [day_dir EXCEPT !.files = left]
                   /\ rmtree_failed' = TRUE
       ELSE
           UNCHANGED <<day_dir, rmtree_failed>>
    /\ raised' = "OSError"
    /\ create_pc' = "done"
    /\ UNCHANGED <<solvervars, history, helpervars, besidescreate, new_day, template_dir,
                   day_dir_before, copy_idx, created>>

NextCreate ==
    CallCreate \/ CheckArguments \/ MakeDirectory \/ CopyFile \/ UpdateAndReturn
        \/ HandleOSError

SpecCreate == InitCreate /\ [][NextCreate]_vars

----------------------------------------------------------------------------
(* Day 8: what the claims are measured against.  Connectivity is computed  *)
(* from the edge list alone, by closing a vertex set under the edges.      *)

n8 == Len(points)

\* the index pairs of the first m entries of the edge list
PairsOfFirst(m) == {{edges[t][2], edges[t][3]} : t \in 1..m}

RECURSIVE Closure(_, _)
Closure(S, pairs) ==
    LET T == S \cup {v \in 0..(n8 - 1) : \E u \in S : {u, v} \in pairs}
    IN  IF T = S THEN S ELSE Closure(T, pairs)

ComponentsAfter(m) == {Closure({i}, PairsOfFirst(m)) : i \in 0..(n8 - 1)}

\* number of edges that edges[:connections] holds
Applied == IF connections < Len(edges) THEN connections ELSE Len(edges)

\* edge t joins two vertices that the edges before it already connect
IsRedundant(t) == edges[t][3] \in Closure({edges[t][2]}, PairsOfFirst(t - 1))

IsDescending(s) == \A i \in 1..(Len(s) - 1) : s[i] >= s[i + 1]

\* the edge list holds every pair i < j once, with its squared distance, in
\* ascending order of distance
IsAscendingEdgeList ==
    /\ Len(edges) = (n8 * (n8 - 1)) \div 2
    /\ \A i \in 0..(n8 - 1) : \A j \in (i + 1)..(n8 - 1) :
          \E t \in 1..Len(edges) :
              edges[t] = <<DistSq(points[i + 1], points[j + 1]), i, j>>
    /\ \A t \in 1..(Len(edges) - 1) : edges[t][1] <= edges[t + 1][1]

\* _component_sizes_after_k_edges has returned
Sizes8Done == day = 8 /\ part = 1 /\ pc = "done" /\ points # <<>>

\* _final_connection_product has returned or raised
Final8Done == day = 8 /\ part = 2 /\ pc = "done" /\ points # <<>>

AllBlank(lines) == \A i \in 1..Len(lines) : IsBlank(lines[i])

----------------------------------------------------------------------------
(* Claims. *)

\* C1: for n >= 1 points and any k >= 0 the component sizes returned by
\* _component_sizes_after_k_edges sum to n.
C1_SizesSumToN == Sizes8Done => SumSeq(comp_sizes) = n8

\* some but not all edges applied, at least two components left
C1_Witness ==
    /\ Sizes8Done
    /\ n8 >= 3
    /\ 0 < connections /\ connections < Len(edges)
    /\ Len(comp_sizes) >= 2
    /\ comp_sizes[1] >= 2

\* C2: for n >= 1 and k >= n*(n-1)/2, also k beyond the number of edges, all
\* edges are applied without error and the result is the list [n].
C2_AllEdgesOneComponent ==
    (Sizes8Done /\ connections >= (n8 * (n8 - 1)) \div 2) =>
        /\ outcome = "returned"
        /\ idx = Len(edges)
        /\ comp_sizes = <<n8>>

\* k larger than the number of edges
C2_Witness ==
    /\ Sizes8Done
    /\ n8 >= 3
    /\ connections > Len(edges)
    /\ comp_sizes = <<n8>>

\* the example of the specification: [(0,0,0), (1,0,0), (5,5,5)], k = 1
SpecExample ==
    (Sizes8Done /\ points = <<<<0, 0, 0>>, <<1, 0, 0>>, <<5, 5, 5>>>> /\ connections = 1)
        => comp_sizes = <<2, 1>>

\* C3: the returned list is, sorted descending, the sizes of the connected
\* components of the graph made of the first min(k, number of edges) entries
\* of the ascending edge list; an edge between already connected points uses
\* up one of the k slots.
C3_SizesAreComponentSizes ==
    Sizes8Done =>
        /\ IsAscendingEdgeList
        /\ IsDescending(comp_sizes)
        /\ Len(comp_sizes) = Cardinality(ComponentsAfter(Applied))
        /\ \A c \in ComponentsAfter(Applied) :
              Cardinality({i \in 1..Len(comp_sizes) : comp_sizes[i] = Cardinality(c)})
                  = Cardinality({d \in ComponentsAfter(Applied) :
                                    Cardinality(d) = Cardinality(c)})
        /\ SpecExample

\* a redundant edge was among the k applied ones and the graph is still
\* disconnected
C3_Witness ==
    /\ Sizes8Done
    /\ Applied < Len(edges)
    /\ \E t \in 1..Applied : IsRedundant(t)
    /\ comp_sizes = <<3, 1>>

\* edge t is the first one whose prefix of the edge list connects all points
IsFirstConnecting(t) ==
    /\ Cardinality(ComponentsAfter(t)) = 1
    /\ \A u \in 0..(t - 1) : Cardinality(ComponentsAfter(u)) >= 2

\* C4: for n >= 2, _final_connection_product takes the edges in ascending
\* order and returns points[a][0] * points[b][0] for the first edge (a, b)
\* that leaves one component; every shorter prefix leaves at least two.  For
\* two points it is the product of their x-coordinates.
C4_FinalConnectionProduct ==
    (Final8Done /\ n8 >= 2) =>
        /\ outcome = "returned"
        /\ IsAscendingEdgeList
        /\ \E t \in 1..Len(edges) :
              /\ IsFirstConnecting(t)
              /\ ~IsRedundant(t)
              /\ components = 1
              /\ result = points[edges[t][2] + 1][1] * points[edges[t][3] + 1][1]
        /\ (n8 = 2 => result = points[1][1] * points[2][1])

\* the connecting edge comes after a redundant one, and its product is not 0
C4_Witness ==
    /\ Final8Done
    /\ n8 >= 4
    /\ outcome = "returned"
    /\ idx > n8 - 1
    /\ result = 5

\* C5 (as claimed): for n >= 1 points _final_connection_product returns and
\* never raises "Graph did not become fully connected".
C5_AlwaysReturns == Final8Done => outcome = "returned"

\* C6 (as claimed): a Day 8 input with zero points (no lines, or blank lines
\* only) makes both parts return 0 without raising.
C6_ZeroPointsReturnZero ==
    (day = 8 /\ pc = "done" /\ AllBlank(instructions)) =>
        (outcome = "returned" /\ result = 0)

\* C6 (amended): the empty list of lines makes both parts return 0; a
\* non-empty list of blank lines makes both raise the ValueError "No junction
\* box coordinates found in the input."
C6_EmptyReturnsBlankRaises ==
    (day = 8 /\ pc = "done" /\ AllBlank(instructions)) =>
        IF instructions = <<>>
            THEN outcome = "returned" /\ result = 0
            ELSE /\ outcome = "ValueError"
                 /\ message = "No junction box coordinates found in the input."

\* blank lines only, the solver has ended
C6_Witness ==
    /\ day = 8
    /\ pc = "done"
    /\ instructions = <<BlankLine, BlankLine>>
    /\ outcome = "ValueError"

----------------------------------------------------------------------------
(* Day 8 and Day 9: malformed lines. *)

\* a coordinate line that is not blank (and for Day 9 not a '#' comment,
\* which is no coordinate line there) with a field that is no integer or
\* with the wrong number of fields: three for Day 8, two for Day 9
IsMalformed(line, d) ==
    /\ line # <<"">>
    /\ ~(d = 9 /\ line[1] = "#")
    /\ \/ Len(line) # (IF d = 8 THEN 3 ELSE 2)
       \/ \E f \in 1..Len(line) : line[f] \notin {"0", "1", "4", "5"}

HasMalformed == \E i \in 1..Len(instructions) : IsMalformed(instructions[i], day)

\* C7: a malformed non-blank coordinate line anywhere in the input makes the
\* Day 8 and Day 9 solvers end in a ValueError and return no integer,
\* whatever the other lines hold: the run ends in the parsing step.
C7_MalformedRaises ==
    (HasMalformed /\ pc # "start") => (pc = "done" /\ outcome = "ValueError")

\* the malformed line is the last one, behind two well-formed points
C7_Witness ==
    /\ pc = "done"
    /\ Len(instructions) = 3
    /\ ~IsMalformed(instructions[1], day) /\ ~IsBlank(instructions[1])
    /\ ~IsMalformed(instructions[2], day) /\ ~IsBlank(instructions[2])
    /\ IsMalformed(instructions[3], day)
    /\ outcome = "ValueError"

----------------------------------------------------------------------------
(* Day 9 claims. *)

\* some point and its cyclic successor differ in both coordinates
HasDiagonalPair(pts) ==
    \E i \in 1..Len(pts) :
        LET j == IF i = Len(pts) THEN 1 ELSE i + 1
        IN  pts[i][1] # pts[j][1] /\ pts[i][2] # pts[j][2]

\* C8: for a Day 9 input of at least 2 points in which some pair of
\* consecutive points, the wraparound last -> first included, differs in
\* both coordinates, solve_part_two raises the ValueError "Edges must be
\* axis-aligned" and returns no area.
C8_DiagonalRaises ==
    (/\ day = 9 /\ part = 2 /\ pc \notin {"start", "mark"}
     /\ Len(points) >= 2 /\ HasDiagonalPair(points)) =>
        /\ pc = "done"
        /\ outcome = "ValueError"
        /\ message = "Edges must be axis-aligned"

\* only the closing edge last -> first is diagonal
C8_Witness ==
    /\ day = 9 /\ part = 2 /\ pc = "done"
    /\ Len(points) >= 4
    /\ \A i \in 1..(Len(points) - 1) :
          points[i][1] = points[i + 1][1] \/ points[i][2] = points[i + 1][2]
    /\ HasDiagonalPair(points)
    /\ message = "Edges must be axis-aligned"

\* the lines are blank lines, '#' lines and well-formed points only
NoBadLine9(lines) ==
    \A i \in 1..Len(lines) :
        \/ lines[i] = <<"">>
        \/ lines[i][1] = "#"
        \/ Len(lines[i]) = 2 /\ \A f \in 1..2 : lines[i][f] \in {"0", "1", "4", "5"}

PointLineCount9(lines) ==
    Cardinality({i \in 1..Len(lines) : lines[i] # <<"">> /\ lines[i][1] # "#"})

\* C9: a Day 9 input that yields fewer than 2 points (no lines, only blank
\* or '#' lines, or exactly one point) makes solve_part_one and
\* solve_part_two return 0 without raising.
C9_FewPointsReturnZero ==
    (/\ day = 9 /\ pc # "start"
     /\ NoBadLine9(instructions) /\ PointLineCount9(instructions) < 2) =>
        (pc = "done" /\ outcome = "returned" /\ result = 0)

\* solve_part_two on a comment, one point and a blank line
C9_Witness ==
    /\ day = 9 /\ part = 2 /\ pc = "done"
    /\ Len(instructions) = 3
    /\ \E i \in 1..3 : instructions[i] = <<"#">>
    /\ PointLineCount9(instructions) = 1
    /\ outcome = "returned"

\* solve_part_two has built its prefix sums
Area9Done == day = 9 /\ part = 2 /\ pc = "done" /\ outcome = "returned" /\ Len(points) >= 2

\* the unit cell [cx, cx+1) x [cy, cy+1) lies in an allowed tile
CellAllowed(cx, cy) ==
    \E t \in allowed :
        /\ xs[t[1]] <= cx /\ cx < xs[t[1] + 1]
        /\ ys[t[2]] <= cy /\ cy < ys[t[2] + 1]

\* counting the allowed unit cells of x0..x1 by y0..y1 one by one
AllowedCells(x0, x1, y0, y1) ==
    Cardinality({c \in (x0..x1) \X (y0..y1) : CellAllowed(c[1], c[2])})

VertexXs == {points[i][1] : i \in 1..Len(points)}
VertexYs == {points[i][2] : i \in 1..Len(points)}

\* C10: for an axis-aligned polygon input and a query rectangle whose bounds
\* x0 <= x1, y0 <= y1 are vertex coordinates, rect_area_sum(x0, x1, y0, y1)
\* is the number of allowed unit cells (cx, cy) with x0 <= cx <= x1 and
\* y0 <= cy <= y1, counted cell by cell on the uncompressed grid.
C10_RectAreaSumCountsCells ==
    Area9Done =>
        \A x0 \in VertexXs, x1 \in VertexXs, y0 \in VertexYs, y1 \in VertexYs :
            (x0 <= x1 /\ y0 <= y1) =>
                rect_area_sum(prefix, x0, x1, y0, y1) = AllowedCells(x0, x1, y0, y1)

\* a query rectangle that is partly allowed and holds a tile two units
\* wide and high that is not
C10_Witness ==
    /\ Area9Done
    /\ \E x0 \in VertexXs, x1 \in VertexXs, y0 \in VertexYs, y1 \in VertexYs :
          /\ x0 < x1 /\ y0 < y1
          /\ rect_area_sum(prefix, x0, x1, y0, y1) > 0
          /\ rect_area_sum(prefix, x0, x1, y0, y1) < (x1 - x0 + 1) * (y1 - y0 + 1)
          /\ \E t \in Tiles \ allowed :
                /\ widths(t[1]) = 2 /\ heights(t[2]) = 2
                /\ x0 <= xs[t[1]] /\ xs[t[1] + 1] - 1 <= x1
                /\ y0 <= ys[t[2]] /\ ys[t[2] + 1] - 1 <= y1

----------------------------------------------------------------------------
(* Day 9: the polygon on the uncompressed grid of unit cells, with a frame  *)
(* of one cell around the bounding box.                                     *)

GridCells ==
    ((MinOf(VertexXs) - 1)..(MaxOf(VertexXs) + 1))
        \X ((MinOf(VertexYs) - 1)..(MaxOf(VertexYs) + 1))

\* the cells on the segments between consecutive vertices, last -> first included
BoundaryCells ==
    UNION {LET p1 == points[i]
               p2 == points[IF i = Len(points) THEN 1 ELSE i + 1]
           IN  (Min2(p1[1], p2[1])..Max2(p1[1], p2[1]))
                   \X (Min2(p1[2], p2[2])..Max2(p1[2], p2[2])) :
           i \in 1..Len(points)}

FrameCells ==
    {c \in GridCells :
        \/ c[1] = MinOf(VertexXs) - 1 \/ c[1] = MaxOf(VertexXs) + 1
        \/ c[2] = MinOf(VertexYs) - 1 \/ c[2] = MaxOf(VertexYs) + 1}

Adjacent(c, d) ==
    \/ c[1] = d[1] /\ Abs(c[2] - d[2]) = 1
    \/ c[2] = d[2] /\ Abs(c[1] - d[1]) = 1

\* the cells reached from S by 4-directional steps through the cells of free
RECURSIVE Outside(_, _)
Outside(S, free) ==
    LET T == S \cup {c \in free : \E d \in S : Adjacent(c, d)}
    IN  IF T = S THEN S ELSE Outside(T, free)

ExteriorCells == Outside(FrameCells, GridCells \ BoundaryCells)

\* the inclusive bounding rectangle of vertices i and j holds no cell of ext
PairInside(i, j, ext) ==
    \A c \in (Min2(points[i][1], points[j][1])..Max2(points[i][1], points[j][1]))
              \X (Min2(points[i][2], points[j][2])..Max2(points[i][2], points[j][2])) :
        c \notin ext

\* the areas of the pairs whose rectangle keeps off ext
InsideAreas(ext) ==
    {PairArea(points[pr[1]], points[pr[2]]) :
        pr \in {r \in (1..Len(points)) \X (1..Len(points)) :
                    r[1] < r[2] /\ PairInside(r[1], r[2], ext)}}

\* C11: for an axis-aligned polygon of n >= 2 vertices solve_part_two
\* returns the largest (|xi-xj|+1)*(|yi-yj|+1) over the vertex pairs whose
\* inclusive bounding rectangle holds only boundary or interior unit cells
\* of the uncompressed grid, and 0 if no pair qualifies: the compression
\* does not change the result.
C11_MaxInsideRectangle ==
    Area9Done =>
        LET ext == ExteriorCells
        IN  result = MaxOf(InsideAreas(ext) \cup {0})

\* a pair with a larger rectangle is rejected because its rectangle leaves
\* the polygon
C11_Witness ==
    /\ Area9Done
    /\ result > 0
    /\ LET ext == ExteriorCells
       IN  \E i \in 1..Len(points), j \in 1..Len(points) :
              i < j /\ PairArea(points[i], points[j]) > result /\ ~PairInside(i, j, ext)

\* the four corners of a rectangle in cyclic order
IsRectangle(pts) ==
    /\ Len(pts) = 4
    /\ pts[1][1] < pts[2][1] /\ pts[1][2] < pts[3][2]
    /\ pts[2] = <<pts[2][1], pts[1][2]>>
    /\ pts[3] = <<pts[2][1], pts[3][2]>>
    /\ pts[4] = <<pts[1][1], pts[3][2]>>

\* C12: for the boundary (x0,y0),(x1,y0),(x1,y1),(x0,y1) with x0 < x1 and
\* y0 < y1 solve_part_two returns (x1-x0+1)*(y1-y0+1), 25 for the 0..4 square.
C12_RectangleArea ==
    (day = 9 /\ part = 2 /\ pc = "done" /\ IsRectangle(points)) =>
        /\ outcome = "returned"
        /\ result = (points[3][1] - points[1][1] + 1) * (points[3][2] - points[1][2] + 1)

\* the 0..4 square
C12_Witness ==
    /\ day = 9 /\ part = 2 /\ pc = "done"
    /\ points = <<<<0, 0>>, <<4, 0>>, <<4, 4>>, <<0, 4>>>>
    /\ result = 25

----------------------------------------------------------------------------
(* Day 8: the edge order and the disjoint-set forest. *)

\* the forest exists: the parse succeeded
Forest8 == day = 8 /\ pc # "start" /\ points # <<>>

\* C18: in _sorted_edges, edges of equal squared distance keep their
\* generation order (ascending i, then ascending j), so the order of the
\* list is fixed by the input order of the points.
C18_TiesKeepGenerationOrder ==
    Forest8 =>
        /\ IsAscendingEdgeList
        /\ \A s \in 1..Len(edges), t \in 1..Len(edges) :
              (s < t /\ edges[s][1] = edges[t][1]) =>
                  \/ edges[s][2] < edges[t][2]
                  \/ edges[s][2] = edges[t][2] /\ edges[s][3] < edges[t][3]

\* two edges of equal distance, with an edge of another distance generated
\* between them
C18_Witness ==
    /\ Forest8
    /\ \E s \in 1..Len(edges), t \in 1..Len(edges), u \in 1..Len(edges) :
          /\ s < t /\ t < u
          /\ edges[s][1] = edges[t][1] /\ edges[t][1] < edges[u][1]
          /\ edges[s][2] = edges[u][2] /\ edges[u][3] < edges[t][3]
          /\ edges[s][3] < edges[u][3]

\* the root reached from a along the parent links, -1 if none is reached in
\* fuel steps
RECURSIVE RootWithin(_, _, _)
RootWithin(par, a, fuel) ==
    IF par[a] = a THEN a
    ELSE IF fuel = 0 THEN -1
    ELSE RootWithin(par, par[a], fuel - 1)

RootIn(par, a) == RootWithin(par, a, n8)

\* C19: after any sequence of union and find calls the parent array is a
\* forest, find(x) = find(y) exactly when x and y are connected by the edges
\* applied so far, and the path compression of find changes no point's root.
C19_ForestMatchesConnectivity ==
    Forest8 =>
        /\ \A a \in 0..(n8 - 1) : RootIn(parents, a) # -1
        /\ \A a \in 0..(n8 - 1), b \in 0..(n8 - 1) :
              (find(parents, a).root = find(find(parents, a).parents, b).root)
                  <=> (b \in Closure({a}, PairsOfFirst(idx)))
        /\ \A a \in 0..(n8 - 1) :
              /\ find(parents, a).root = RootIn(parents, a)
              /\ \A x \in 0..(n8 - 1) :
                    RootIn(find(parents, a).parents, x) = RootIn(parents, x)

\* a point two links below its root: find on it rewrites a parent
C19_Witness ==
    /\ Forest8
    /\ \E x \in 0..(n8 - 1) :
          /\ parents[x] # x
          /\ parents[parents[x]] # parents[x]
          /\ find(parents, x).parents # parents

Roots(par) == {r \in DOMAIN par : par[r] = r}

\* sizes[r] is the number of points whose root is r
SizesCountPoints ==
    Forest8 =>
        \A r \in Roots(parents) :
            sizes[r] = Cardinality({x \in 0..(n8 - 1) : RootIn(parents, x) = r})

\* a step that takes a root away put it under a root whose recorded size
\* was at least its own, and added the two sizes there
MergeIsBySize ==
    (Forest8 /\ pc \in {"union", "final"}) =>
        \A r \in Roots(parents) \ Roots(parents') :
            LET b == parents'[r]
            IN  /\ b \in Roots(parents')
                /\ sizes[r] <= sizes[b]
                /\ sizes'[b] = sizes[b] + sizes[r]
                /\ sizes'[r] = sizes[r]

\* C20: every successful union puts the root of smaller recorded size under
\* the root of larger or equal size and adds the sizes, so sizes[r] is the
\* number of points of r's component for every root r.
C20_UnionBySize == []SizesCountPoints /\ [][MergeIsBySize]_vars

\* the first endpoint of the last applied edge was a single point and went
\* under the root of a larger component: the swap in union was taken
C20_Witness ==
    /\ Forest8
    /\ idx >= 3
    /\ \A t \in 1..(idx - 1) : edges[t][2] # edges[idx][2] /\ edges[t][3] # edges[idx][2]
    /\ parents[edges[idx][2]] # edges[idx][2]
    /\ sizes[parents[edges[idx][2]]] >= 3

----------------------------------------------------------------------------
(* Day 8 and Day 9: calls repeated in one process. *)

\* C13: a call of a Day 8 or Day 9 solver on a list of lines returns or
\* raises what every earlier call on the same lines did, whatever calls
\* were made in between: nothing survives from one call to the next.
C13_SameCallSameOutput ==
    pc = "done" => \A h \in history : h.call = Completed.call => h = Completed

\* a Day 8 call repeated after a Day 9 call and a different Day 8 call, and
\* the same for a Day 9 call
C13_Witness ==
    /\ pc = "done"
    /\ outcome = "returned"
    /\ result > 0
    /\ Completed \in history
    /\ \E h \in history : h.call.day = 8 /\ h.call # Completed.call
    /\ \E h \in history : h.call.day = 9 /\ h.call # Completed.call

----------------------------------------------------------------------------
(* helper.py: credentials, HTTP errors and local files. *)

\* C14: when AOC_COOKIE and AOC_YEAR are both set and non-empty at the time
\* of a _load_secrets call, the call returns the environment's values,
\* whatever secret.json holds and whatever earlier calls loaded.
C14_EnvironmentTakesPrecedence ==
    (/\ last.call = "_load_secrets"
     /\ Truthy(environ.AOC_COOKIE)
     /\ Truthy(environ.AOC_YEAR))
        => /\ last.outcome = "returned"
           /\ last.secrets = Dict(BothKeys, environ.AOC_COOKIE, environ.AOC_YEAR)

\* C15: when is_api_available() has returned True, the _get_aoc_creds call
\* made right after it returns a non-empty cookie and a year.
C15_AvailableThenCredsLoad ==
    (last.call = "_get_aoc_creds" /\ last.after_available)
        => /\ last.outcome = "returned"
           /\ last.cookie # ""
           /\ last.year # ""

\* C16: a 401 from the server makes get_input, get_example and
\* submit_answer raise PermissionError, a 404 makes them raise
\* FileNotFoundError.
C16_AuthAndNotFoundErrors ==
    last.call \in {"get_input", "get_example", "submit_answer"} =>
        /\ last.status = 401 => last.outcome = "PermissionError"
        /\ last.status = 404 => last.outcome = "FileNotFoundError"

\* the lines of a text with only its trailing newlines removed
LinesOf(content) == SplitLines(rstrip_newlines(content))

\* C17: manually_get_input and manually_get_example return the lines of the
\* file in order with only the trailing newlines removed, every line's
\* characters unchanged, and the empty list for an empty file.
C17_LinesUnchanged ==
    (/\ last.call \in {"manually_get_input", "manually_get_example"}
     /\ last.outcome = "returned")
        => last.lines = LinesOf(last.content)

----------------------------------------------------------------------------
(* Day 8: an edge inside one component. *)

\* the components the parent array stands for
PartitionOf(par) ==
    {{x \in DOMAIN par : RootIn(par, x) = RootIn(par, a)} : a \in DOMAIN par}

\* the edge the loop takes next joins two points that the edges taken so far
\* already connect
NextEdgeIsRedundant ==
    /\ Forest8
    /\ \/ pc = "union" /\ idx < Applied
       \/ pc = "final" /\ idx < Len(edges)
    /\ edges[idx + 1][3] \in Closure({edges[idx + 1][2]}, PairsOfFirst(idx))

\* C21: a union call on two points of the same component leaves the set of
\* components, the roots and every root's recorded size as they were,
\* leaves the live-component counter of _final_connection_product alone
\* and reports no merge.
C21_RedundantUnionIsNoOp ==
    [][(NextEdgeIsRedundant /\ idx' = idx + 1) =>
          /\ ~union(parents, sizes, edges[idx + 1][2], edges[idx + 1][3]).merged
          /\ PartitionOf(parents') = PartitionOf(parents)
          /\ Roots(parents') = Roots(parents)
          /\ \A r \in Roots(parents) : sizes'[r] = sizes[r]
          /\ components' = components
          /\ pc' = pc]_vars

\* _final_connection_product has just taken an edge inside one component
\* while more than one component is left
C21_Witness ==
    /\ Forest8
    /\ part = 2
    /\ pc = "final"
    /\ idx >= 1
    /\ IsRedundant(idx)
    /\ components > 1

----------------------------------------------------------------------------
(* Day 9: the compressed grid and the flood fill. *)

\* solve_part_two has built its coordinate lists
Grid9 == day = 9 /\ part = 2 /\ pc \in {"seed", "flood", "done"} /\ xs # NoFunction

\* c is strictly increasing, runs from lo - 1 to hi + 2 and holds v and, right
\* after it, v + 1 for every v of coords
IsCompressionOf(c, coords) ==
    /\ DOMAIN c = 0..(Cardinality(DOMAIN c) - 1)
    /\ \A i \in DOMAIN c : \A j \in DOMAIN c : i < j => c[i] < c[j]
    /\ c[0] = MinOf(coords) - 1
    /\ c[Cardinality(DOMAIN c) - 1] = MaxOf(coords) + 2
    /\ \A v \in coords :
          \E i \in DOMAIN c : c[i] = v /\ (i + 1) \in DOMAIN c /\ c[i + 1] = v + 1

\* C22: xs and ys are strictly increasing, start at min - 1 and end at
\* max + 2 of the bounding box and hold v and v + 1 for every vertex
\* coordinate v; so every tile is at least 1 wide and high, the tile that
\* starts at a vertex coordinate is exactly 1 wide (or high), and the
\* lookups of v and v + 1 find their keys.
C22_CompressedCoordinates ==
    Grid9 =>
        /\ IsCompressionOf(xs, VertexXs)
        /\ IsCompressionOf(ys, VertexYs)
        /\ \A ix \in 0..(width_n - 1) : widths(ix) >= 1
        /\ \A iy \in 0..(height_n - 1) : heights(iy) >= 1
        /\ \A v \in VertexXs : widths(IndexIn(xs, v)) = 1 /\ xs[IndexIn(xs, v + 1)] = v + 1
        /\ \A v \in VertexYs : heights(IndexIn(ys, v)) = 1 /\ ys[IndexIn(ys, v + 1)] = v + 1

\* a finished run on a grid with a tile more than 1 wide and one more than
\* 1 high between vertex coordinates
C22_Witness ==
    /\ Grid9
    /\ pc = "done"
    /\ result > 0
    /\ \E ix \in 1..(width_n - 2) : widths(ix) > 1
    /\ \E iy \in 1..(height_n - 2) : heights(iy) > 1

\* the tiles of the outer frame of the compressed grid
FrameTiles ==
    {t \in Tiles : t[1] = 0 \/ t[1] = width_n - 1 \/ t[2] = 0 \/ t[2] = height_n - 1}

AdjacentTiles(t, u) ==
    \/ t[1] = u[1] /\ Abs(t[2] - u[2]) = 1
    \/ t[2] = u[2] /\ Abs(t[1] - u[1]) = 1

\* the tiles of free reached from S by 4-directional steps inside free
RECURSIVE ReachedFrom(_, _)
ReachedFrom(S, free) ==
    LET T == S \cup {t \in free : \E u \in S : AdjacentTiles(t, u)}
    IN  IF T = S THEN S ELSE ReachedFrom(T, free)

\* C23: after the construction a tile is allowed exactly when the boundary
\* loop marked it or no path of 4-directional steps through unmarked tiles
\* leads to it from an unmarked tile of the outer frame; and at no time is
\* a tile of the outer frame allowed.
C23_AllowedIsBoundaryOrEnclosed ==
    Grid9 =>
        /\ FrameTiles \cap allowed = {}
        /\ Area9Done =>
              LET free == Tiles \ boundary
              IN  allowed = boundary \cup (Tiles \ ReachedFrom(FrameTiles \cap free, free))

\* a finished construction with an enclosed tile that is not boundary and
\* an exterior tile that is not on the frame
C23_Witness ==
    /\ Grid9
    /\ Area9Done
    /\ allowed \ boundary # {}
    /\ visited \ FrameTiles # {}

\* the flood fill is under way or over
Flooding == Grid9 /\ pc \in {"flood", "done"}

\* C24: the flood fill terminates.  A tile is marked visited when it is
\* enqueued, so no tile is in the queue twice and each visited tile was
\* enqueued once; only in-range tiles off the boundary are enqueued; each
\* pass of the loop takes one tile off, at most width_n * height_n passes
\* are made, and the loop ends with the queue empty.
C24_FloodFillTerminates ==
    /\ [](Flooding =>
            /\ \A i \in 1..Len(q) : q[i] \in Tiles \ boundary
            /\ \A i \in 1..Len(q) : \A j \in 1..Len(q) : q[i] = q[j] => i = j
            /\ {q[i] : i \in 1..Len(q)} \subseteq visited
            /\ visited \subseteq Tiles \ boundary
            /\ dequeues + Len(q) = Cardinality(visited)
            /\ dequeues <= width_n * height_n
            /\ pc = "done" => q = <<>>)
    /\ [][(pc = "flood" /\ pc' = "flood") => dequeues' = dequeues + 1]_vars
    /\ ((Grid9 /\ pc = "flood") ~> (pc = "done" /\ q = <<>>))

\* the fill is over and went through tiles that the seeding did not
\* enqueue
C24_Witness ==
    /\ Flooding
    /\ pc = "done"
    /\ q = <<>>
    /\ visited \ FrameTiles # {}
    /\ dequeues = Cardinality(visited)

----------------------------------------------------------------------------
(* Day 7: timelines counted one by one. *)

IsRectangular7 == \A r \in 1..Len(instructions) : Len(instructions[r]) = Len(instructions[1])

HasStart7 == \E r \in 1..Len(instructions) : \E c \in 1..Len(instructions[r]) : instructions[r][c] = "S"

\* the first row that holds an S and the first S in it, as Python indices
StartRow7 ==
    (CHOOSE r \in 1..Len(instructions) :
        /\ \E c \in 1..Len(instructions[r]) : instructions[r][c] = "S"
        /\ \A q2 \in 1..(r - 1) : \A c \in 1..Len(instructions[q2]) : instructions[q2][c] # "S") - 1

StartCol7 ==
    (CHOOSE c \in 1..Len(instructions[StartRow7 + 1]) :
        /\ instructions[StartRow7 + 1][c] = "S"
        /\ \A d \in 1..(c - 1) : instructions[StartRow7 + 1][d] # "S") - 1

\* the paths of a particle at row r, column c, each the list of the columns
\* it is at row by row; a step out of the grid ends the path there
RECURSIVE PathsFrom(_, _)
PathsFrom(r, c) ==
    IF c < 0 \/ c >= Len(instructions[1]) \/ r >= Len(instructions) THEN {<<c>>}
    ELSE IF instructions[r + 1][c + 1] = "^"
        THEN {<<c>> \o p : p \in PathsFrom(r + 1, c - 1) \cup PathsFrom(r + 1, c + 1)}
    ELSE {<<c>> \o p : p \in PathsFrom(r + 1, c)}

\* C25: for a rectangular grid that holds an S, _count_timelines returns
\* the number of distinct paths of a particle that starts at S, goes down a
\* row per step, branches to column - 1 and column + 1 on a '^' (a branch
\* out of the grid ends there and is one path) and goes straight elsewhere;
\* the active columns are within 0..width-1 at every row.
C25_CountsDistinctPaths ==
    (day = 7 /\ instructions # <<>> /\ IsRectangular7 /\ HasStart7) =>
        /\ pc = "rows" =>
              /\ width = Len(instructions[1])
              /\ DOMAIN active \subseteq 0..(width - 1)
              /\ \A c \in DOMAIN active : active[c] >= 1
        /\ pc = "done" =>
              /\ outcome = "returned"
              /\ result = Cardinality(PathsFrom(StartRow7, StartCol7))

\* a run in which two branches met in one column and a branch left the
\* grid sideways
C25_Witness ==
    /\ day = 7
    /\ pc = "done"
    /\ outcome = "returned"
    /\ finished >= 1
    /\ \E c \in DOMAIN active : active[c] >= 2
    /\ result >= 4

----------------------------------------------------------------------------
(* Day 5: the merged ranges. *)

\* the integers of at least one parsed range
Covered5 == UNION {parsed_ranges[i][1]..parsed_ranges[i][2] : i \in 1..Len(parsed_ranges)}

\* C26: solve_part_two returns the number of distinct integers that at
\* least one parsed range covers, and the merged ranges it builds are in
\* ascending order, pairwise disjoint and never adjacent.
C26_CountsCoveredIntegers ==
    day = 5 =>
        /\ \A i \in 1..Len(merged_ranges) : merged_ranges[i][1] <= merged_ranges[i][2]
        /\ \A i \in 1..(Len(merged_ranges) - 1) :
              merged_ranges[i][2] + 1 < merged_ranges[i + 1][1]
        /\ pc = "done" =>
              /\ outcome = "returned"
              /\ result = Cardinality(Covered5)

\* three parsed ranges, the second inside or next to the first and the
\* third apart from both
C26_Witness ==
    /\ day = 5
    /\ pc = "done"
    /\ Len(parsed_ranges) = 3
    /\ Len(merged_ranges) = 2
    /\ parsed_ranges[2][2] < merged_ranges[1][2]
    /\ result > 0

----------------------------------------------------------------------------
(* Day 3: the largest two-digit number of a line. *)

\* the positions of a line that hold one of the digits 0..9
DecimalPositions(ln) == {i \in 1..Len(ln) : ln[i] \in DOMAIN DigitValue}

\* the largest 10*d[i] + d[j] over two digits at positions i < j, each pair
\* tried in turn
BruteMax(ln) ==
    MaxOf({10 * DigitValue[ln[i]] + DigitValue[ln[j]] :
              <<i, j>> \in {pr \in DecimalPositions(ln) \X DecimalPositions(ln) : pr[1] < pr[2]}})

PassMade3 == day = 3 /\ line_idx' = line_idx + 1

\* C27: for every line with at least two digits, a pass of solve_part_one
\* adds the largest 10*d[i] + d[j] with i < j to the result, and does not
\* take the formed_number = 0 branch.
C27_AddsLargestPair ==
    [][(PassMade3 /\ Cardinality(DecimalPositions(line3')) >= 2) =>
           /\ outcome' = "running"
           /\ result' = result + BruteMax(line3')
           /\ branch' # "zero"]_vars

\* the same for the lines all of whose isdigit() characters are among 0..9
Day3_DecimalLinesAddLargestPair ==
    [][(/\ PassMade3
        /\ Cardinality(DecimalPositions(line3')) >= 2
        /\ \A i \in 1..Len(line3') : isdigit(line3'[i]) => line3'[i] \in DOMAIN DigitValue) =>
           /\ outcome' = "running"
           /\ result' = result + BruteMax(line3')
           /\ branch' \in {"after", "before"}]_vars

\* a line with two digits 0..9 on which the call ends with ValueError
Day3_RaisesOnTwoDigitLine ==
    /\ day = 3
    /\ outcome = "ValueError"
    /\ Cardinality(DecimalPositions(line3)) >= 2

----------------------------------------------------------------------------
(* Day 1: the two dials. *)

\* L or R followed by an integer of at least least
IsRotation(text, least) ==
    LET line == ParseLine1(text)
    IN  line.error = "" /\ line.letter \in {"L", "R"} /\ line.amount >= least

\* the lines processed so far are all rotations by at least least
RotationsSoFar(least) ==
    /\ day = 1
    /\ pc \in {"loop", "done"}
    /\ clicks_left = 0
    /\ \A i \in 1..line_no : IsRotation(instructions[i], least)

SameDial == first_position = second_position /\ first_position \in 0..99

\* C28 as stated: on lines L or R followed by a non-negative integer, after
\* every line both dials are at the same position within 0..99 and
\* second_part's zero count is at least first_part's.
C28_SecondCountsAtLeastFirst ==
    RotationsSoFar(0) => SameDial /\ second_zeroes >= first_zeroes

\* C28: on lines L or R followed by a non-negative integer both dials are at
\* the same position within 0..99 after every line; when every integer is
\* positive, second_part's zero count is at least first_part's.
C28_SameDialAndPositiveCounts ==
    /\ RotationsSoFar(0) => SameDial
    /\ RotationsSoFar(1) => second_zeroes >= first_zeroes

\* three positive rotations after which first_part has counted a zero and
\* second_part has counted more
C28_Witness ==
    /\ RotationsSoFar(1)
    /\ pc = "done"
    /\ line_no = 3
    /\ first_zeroes >= 1
    /\ second_zeroes > first_zeroes

\* a rotation by 0 with the dial at 0: first_part has counted more
C28_ZeroRotationCountedOnce ==
    /\ RotationsSoFar(0)
    /\ first_zeroes > second_zeroes

----------------------------------------------------------------------------
(* create_day.py: what a failed call leaves on disk. *)

CreateFailed == create_pc = "done" /\ raised # ""

\* a Day<N> that was there before the call is never changed, and the call
\* then ends with ValueError; ValueError and FileNotFoundError come before
\* anything on disk is touched
ExistingDirectoryUntouched ==
    /\ (create_pc # "idle" /\ day_dir_before.exists) =>
          /\ day_dir = day_dir_before
          /\ ~created
          /\ create_pc \in {"check", "done"}
          /\ create_pc = "done" => raised = "ValueError"
    /\ (create_pc = "done" /\ ~(1 <= new_day /\ new_day <= 25)) => raised = "ValueError"
    /\ (create_pc = "done" /\ raised \in {"ValueError", "FileNotFoundError"}) =>
          ~created /\ day_dir = day_dir_before
    /\ (create_pc = "done" /\ raised = "FileNotFoundError") => ~template_dir.exists

\* C29 as stated: a Day<N> that existed before the call is never touched,
\* and a failed call leaves no Day<N> directory behind that was not there
\* before.
C29_FailedCallLeavesNoDirectory ==
    /\ ExistingDirectoryUntouched
    /\ (CreateFailed /\ ~day_dir_before.exists) => ~day_dir.exists

\* C29: a Day<N> that existed before the call is never touched; when the
\* call fails with OSError after creating the directory, the directory is
\* gone again unless shutil.rmtree itself raised OSError, which the handler
\* passes over.
C29_FailedCallCleansUpUnlessRmtreeFails ==
    /\ ExistingDirectoryUntouched
    /\ (CreateFailed /\ ~day_dir_before.exists /\ ~rmtree_failed) => ~day_dir.exists
    /\ (CreateFailed /\ created) => raised = "OSError"
    /\ rmtree_failed => created /\ day_dir.exists

\* a call that made the directory, copied main.py, failed on a later file
\* and removed the directory
C29_Witness ==
    /\ CreateFailed
    /\ raised = "OSError"
    /\ created
    /\ copy_idx >= 2
    /\ ~rmtree_failed
    /\ ~day_dir.exists

\* a failed call whose rmtree raised: the directory it made is still there
C29_DirectoryLeftBehind ==
    /\ CreateFailed
    /\ created
    /\ rmtree_failed
    /\ day_dir.exists
    /\ ~day_dir_before.exists

============================================================================
